---- MODULE Spec2Model ----
(***************************************************************************)
(* A model of the monkey interpreter: the instruction codec                *)
(* (src/code/mod.rs), the symbol table (src/compiler/symbol_table.rs),     *)
(* the compiler (src/compiler/mod.rs), the stack VM (src/vm/mod.rs), the   *)
(* tree-walking evaluator (src/eval) and the loop of src/main.rs.          *)
(*                                                                         *)
(* Spec      : an AST is compiled by compile_statements and the byte code  *)
(*             is run by VM::run, one loop iteration per step.             *)
(* SpecRun   : Spec with the progress of the run of the byte code.           *)
(* SpecCodec : the pure functions of the codec applied to every input.     *)
(* SpecTable : define and resolve called on one SymbolTable.               *)
(* SpecStack : VM::run on the code of expressions as deep as the stack.    *)
(* SpecRepl  : the read-eval-print loop of src/main.rs, which runs the     *)
(*             tree-walking evaluator of src/eval/mod.rs.                  *)
(***************************************************************************)
EXTENDS Integers, Sequences, FiniteSets, TLC

VARIABLES
    ast,              \* the Vec<Statement> handed to compile_statements
    overflow_checks,  \* the build: TRUE = debug (overflow panics), FALSE = release (wraps)
    phase,            \* position of the compile-then-run driver
    compiler,         \* the Compiler struct after compile_statements (byte_code, symbol_table)
    vm,               \* the VM struct: instructions, constants, stack, sp
    ip,               \* VM::run's local instruction pointer
    panic,            \* "none", or the message of the panic that ended the process
    trace,            \* history: the instruction addresses VM::run has executed
    result,           \* what last_popped returned to the caller
    codec,            \* SpecCodec: the call of a codec function and its return value
    symbols,          \* SpecTable: a SymbolTable, the calls made on it and what they returned
    repl              \* SpecRepl: main's Env, the inputs read and what the last one evaluated to

vars ==
    <<ast, overflow_checks, phase, compiler, vm, ip, panic, trace, result, codec, symbols, repl>>

-----------------------------------------------------------------------------
(* Integer widths *)

U8Max == 255
U16Max == 65535
MaxI32 == 2147483647
MinI32 == -MaxI32 - 1
STACK_SIZE == 2048

RECURSIVE Pow2(_)
Pow2(n) == IF n = 0 THEN 1 ELSE 2 * Pow2(n - 1)

\* `x as u8`, `x as u16`: truncating casts of a non-negative value
AsU8(x) == x % (U8Max + 1)
AsU16(x) == x % (U16Max + 1)

\* a >> n and a << n on non-negative values that stay below the width of usize
ShiftRight(a, n) == a \div Pow2(n)
ShiftLeft(a, n) == a * Pow2(n)

\* a | b, bit by bit
RECURSIVE BitOr(_, _)
BitOr(a, b) ==
    IF a = 0 THEN b
    ELSE IF b = 0 THEN a
    ELSE (IF a % 2 = 1 \/ b % 2 = 1 THEN 1 ELSE 0) + 2 * BitOr(a \div 2, b \div 2)

-----------------------------------------------------------------------------
(* i32 arithmetic of Object::Integer.  Every operator is computed without   *)
(* leaving the i32 range, so that the wrapped result of a release build is  *)
(* exact.                                                                   *)

AddOverflows(l, r) == (r > 0 /\ l > MaxI32 - r) \/ (r < 0 /\ l < MinI32 - r)

WrapAdd(l, r) ==
    IF r > 0 /\ l > MaxI32 - r THEN (l - MaxI32 - 1) + (r - MaxI32 - 1)
    ELSE IF r < 0 /\ l < MinI32 - r THEN (l + MaxI32 + 1) + (r + MaxI32 + 1)
    ELSE l + r

SubOverflows(l, r) == (r < 0 /\ l > MaxI32 + r) \/ (r > 0 /\ l < MinI32 + r)

WrapSub(l, r) ==
    IF r < 0 /\ l > MaxI32 + r THEN (l - MaxI32 - 1) - (r + MaxI32 + 1)
    ELSE IF r > 0 /\ l < MinI32 + r THEN (l + MaxI32 + 1) - (r - MaxI32 - 1)
    ELSE l - r

MulOverflows(l, r) ==
    IF l = 0 \/ r = 0 THEN FALSE
    ELSE IF l > 0 /\ r > 0 THEN l > MaxI32 \div r
    ELSE IF l > 0 /\ r < 0 THEN r < (MinI32 + l - 1) \div l
    ELSE IF l < 0 /\ r > 0 THEN l < (MinI32 + r - 1) \div r
    ELSE IF l = MinI32 \/ r = MinI32 THEN TRUE
    ELSE (-l) > MaxI32 \div (-r)

\* l * r modulo 2^32 for r >= 0, by doubling: l * r = 2 * (l * (r / 2)) + l * (r % 2);
\* the half product h is computed once
RECURSIVE WrapMulNat(_, _)
WrapMulNat(l, r) ==
    IF r = 0 THEN 0
    ELSE CHOOSE p \in {IF r % 2 = 1 THEN WrapAdd(WrapAdd(h, h), l) ELSE WrapAdd(h, h) :
                          h \in {WrapMulNat(l, r \div 2)}} : TRUE

WrapMul(l, r) ==
    IF r >= 0 THEN WrapMulNat(l, r)
    ELSE WrapAdd(WrapMulNat(l, (r + MaxI32) + 1), IF l % 2 = 1 THEN MinI32 ELSE 0)

\* floor(2^31 / m) for 2 <= m <= MaxI32, the magnitude of MinI32 divided by m
MinMagnitudeDiv(m) == (MaxI32 \div m) + (IF MaxI32 % m = m - 1 THEN 1 ELSE 0)

\* Rust's integer division truncates toward zero; r # 0 and (l, r) # (MinI32, -1)
TruncDiv(l, r) ==
    IF r = 1 THEN l
    ELSE IF r = MinI32 THEN (IF l = MinI32 THEN 1 ELSE 0)
    ELSE IF l >= 0 /\ r > 0 THEN l \div r
    ELSE IF l >= 0 THEN -(l \div (-r))
    ELSE IF l = MinI32 /\ r > 0 THEN -MinMagnitudeDiv(r)
    ELSE IF l = MinI32 THEN MinMagnitudeDiv(-r)
    ELSE IF r > 0 THEN -((-l) \div r)
    ELSE (-l) \div (-r)

-----------------------------------------------------------------------------
(* eval::Object, the runtime value *)

Integer(n) == [tag |-> "Integer", int |-> n]
String(t) == [tag |-> "String", str |-> t]
Boolean(b) == [tag |-> "Boolean", bool |-> b]
Null == [tag |-> "Null"]

-----------------------------------------------------------------------------
(* parser::Statement and parser::Expr, the compiler's input *)

Const(n) == [expr |-> "Const", num |-> n]
StringLit(t) == [expr |-> "String", text |-> t]
BooleanLit(b) == [expr |-> "Boolean", val |-> b]
Ident(name) == [expr |-> "Ident", name |-> name]
Prefix(prefix, value) == [expr |-> "Prefix", prefix |-> prefix, value |-> value]
Infix(left, operator, right) ==
    [expr |-> "Infix", left |-> left, operator |-> operator, right |-> right]
If(condition, consequence, alternative) ==
    [expr |-> "If", condition |-> condition, consequence |-> consequence,
     alternative |-> alternative]
Function(parameters, body) == [expr |-> "Function", parameters |-> parameters, body |-> body]
Call(function, arguments) == [expr |-> "Call", function |-> function, arguments |-> arguments]

Let(name, value) == [stmt |-> "Let", name |-> name, value |-> value]
Return(value) == [stmt |-> "Return", value |-> value]
Expression(e) == [stmt |-> "Expression", value |-> e]

Operator ==
    {"Plus", "Minus", "Multiply", "Divide", "GreaterThan", "LessThan", "Equals", "NotEquals"}

-----------------------------------------------------------------------------
(* code::OpCode and its byte encoding *)

OpConstant(arg) == [op |-> "OpConstant", arg |-> arg]
OpJumpNotTrue(address) == [op |-> "OpJumpNotTrue", arg |-> address]
OpJump(address) == [op |-> "OpJump", arg |-> address]
OpSetGlobal(global_id) == [op |-> "OpSetGlobal", arg |-> global_id]
OpGetGlobal(global_id) == [op |-> "OpGetGlobal", arg |-> global_id]
Op(name) == [op |-> name]

OpPop == Op("OpPop")
OpAdd == Op("OpAdd")
OpSub == Op("OpSub")
OpMul == Op("OpMul")
OpDiv == Op("OpDiv")
OpTrue == Op("OpTrue")
OpFalse == Op("OpFalse")
OpEquals == Op("OpEquals")
OpNotEquals == Op("OpNotEquals")
OpGreaterThan == Op("OpGreaterThan")
OpMinus == Op("OpMinus")
OpBang == Op("OpBang")

\* the variants of the enum that carry a u16, and those that carry nothing
OperandOps == {"OpConstant", "OpJumpNotTrue", "OpJump", "OpSetGlobal"}
PlainOps ==
    {"OpPop", "OpAdd", "OpSub", "OpMul", "OpDiv", "OpTrue", "OpFalse", "OpEquals",
     "OpNotEquals", "OpGreaterThan", "OpMinus", "OpBang"}

\* fn convert_u16_to_two_u8s_be(integer: u16) -> [u8; 2]
convert_u16_to_two_u8s_be_LittleEndian(integer) ==
    <<AsU8(integer), AsU8(ShiftRight(integer, 8))>>

convert_u16_to_two_u8s_be(integer) ==
    <<AsU8(ShiftRight(integer, 8)), AsU8(integer)>>

\* pub fn convert_two_u8s_be_to_usize(int1: u8, int2: u8) -> usize
convert_two_u8s_be_to_usize(int1, int2) ==
    BitOr(ShiftLeft(int1, 8), int2)

\* OpCode::OpGetGlobal is used by the compiler (compiler/mod.rs:141) but the enum
\* of code/mod.rs has no such variant: its encoding is the one of the opcode table,
\* tag 0x11 followed by the big-endian slot.
make_op_OpGetGlobal(global_id) ==
    <<17>> \o convert_u16_to_two_u8s_be(global_id)

\* a make_op whose OpSub and OpAdd tags are exchanged
make_op_TagsSwapped(op) ==
    CASE op.op = "OpConstant"    -> <<1>> \o convert_u16_to_two_u8s_be(op.arg)
      [] op.op = "OpPop"         -> <<2>>
      [] op.op = "OpAdd"         -> <<4>>
      [] op.op = "OpSub"         -> <<3>>
      [] op.op = "OpMul"         -> <<5>>
      [] op.op = "OpDiv"         -> <<6>>
      [] op.op = "OpTrue"        -> <<7>>
      [] op.op = "OpFalse"       -> <<8>>
      [] op.op = "OpEquals"      -> <<9>>
      [] op.op = "OpNotEquals"   -> <<10>>
      [] op.op = "OpGreaterThan" -> <<11>>
      [] op.op = "OpMinus"       -> <<12>>
      [] op.op = "OpBang"        -> <<13>>
      [] op.op = "OpJumpNotTrue" -> <<14>> \o convert_u16_to_two_u8s_be(op.arg)
      [] op.op = "OpJump"        -> <<15>> \o convert_u16_to_two_u8s_be(op.arg)
      [] op.op = "OpSetGlobal"   -> <<16>> \o convert_u16_to_two_u8s_be(op.arg)
      [] op.op = "OpGetGlobal"   -> make_op_OpGetGlobal(op.arg)

\* pub fn make_op(op: OpCode) -> Vec<u8>
make_op(op) ==
    CASE op.op = "OpConstant"    -> <<1>> \o convert_u16_to_two_u8s_be(op.arg)
      [] op.op = "OpPop"         -> <<2>>
      [] op.op = "OpAdd"         -> <<3>>
      [] op.op = "OpSub"         -> <<4>>
      [] op.op = "OpMul"         -> <<5>>
      [] op.op = "OpDiv"         -> <<6>>
      [] op.op = "OpTrue"        -> <<7>>
      [] op.op = "OpFalse"       -> <<8>>
      [] op.op = "OpEquals"      -> <<9>>
      [] op.op = "OpNotEquals"   -> <<10>>
      [] op.op = "OpGreaterThan" -> <<11>>
      [] op.op = "OpMinus"       -> <<12>>
      [] op.op = "OpBang"        -> <<13>>
      [] op.op = "OpJumpNotTrue" -> <<14>> \o convert_u16_to_two_u8s_be(op.arg)
      [] op.op = "OpJump"        -> <<15>> \o convert_u16_to_two_u8s_be(op.arg)
      [] op.op = "OpSetGlobal"   -> <<16>> \o convert_u16_to_two_u8s_be(op.arg)
      [] op.op = "OpGetGlobal"   -> make_op_OpGetGlobal(op.arg)

-----------------------------------------------------------------------------
(* compiler::symbol_table::SymbolTable *)

\* SymbolTable::new
SymbolTable_new == [store |-> <<>>, next_index |-> 0]

\* a define that hands out the slot already bound to the name, when there is one
define_ReusesSlot(table, name) ==
    IF name \in DOMAIN table.store
    THEN [table |-> table, ret |-> table.store[name], panic |-> "none"]
    ELSE [table |-> [store |-> [n \in DOMAIN table.store \cup {name} |->
                                  IF n = name THEN table.next_index ELSE table.store[n]],
                     next_index |-> table.next_index + 1],
          ret |-> table.next_index, panic |-> "none"]

\* a define that allocates a slot but leaves a name that is already bound on its
\* old slot (HashMap::entry(name).or_insert(index))
define_KeepsFirstBinding(table, name) ==
    LET index == table.next_index
        store == [n \in DOMAIN table.store \cup {name} |->
                    IF n \in DOMAIN table.store THEN table.store[n] ELSE index]
    IN  IF index = U16Max /\ overflow_checks
        THEN [table |-> [table EXCEPT !.store = store], ret |-> index,
              panic |-> "attempt to add with overflow"]
        ELSE [table |-> [store |-> store, next_index |-> AsU16(index + 1)],
              ret |-> index, panic |-> "none"]

\* pub fn define(&mut self, name: SymbolName) -> SymbolIndex
\* next_index is a u16: `+= 1` at 65535 panics in a build with overflow checks
\* and wraps to 0 in one without.
define(table, name) ==
    LET index == table.next_index
        store == [n \in DOMAIN table.store \cup {name} |->
                    IF n = name THEN index ELSE table.store[n]]
    IN  IF index = U16Max /\ overflow_checks
        THEN [table |-> [table EXCEPT !.store = store], ret |-> index,
              panic |-> "attempt to add with overflow"]
        ELSE [table |-> [store |-> store, next_index |-> AsU16(index + 1)],
              ret |-> index, panic |-> "none"]

\* SymbolTable::resolve is called by the compiler (compiler/mod.rs:138) and is not
\* part of symbol_table.rs: Some(slot) when the name is bound, None otherwise.
resolve(table, name) ==
    IF name \in DOMAIN table.store
    THEN [some |-> TRUE, index |-> table.store[name]]
    ELSE [some |-> FALSE]

-----------------------------------------------------------------------------
(* compiler::Compiler.  A compiler value c is the struct (byte_code,        *)
(* symbol_table) together with panic, the message of the panic that ended   *)
(* the compilation ("none" while it runs), and ret, the value the last      *)
(* method returned.  A method called after a panic does nothing: the        *)
(* process has ended.                                                       *)

\* ByteCode::new and the struct literal of compile_from_source
Compiler_new ==
    [byte_code |-> [instructions |-> <<>>, constants |-> <<>>],
     symbol_table |-> SymbolTable_new,
     panic |-> "none",
     ret |-> 0]

Panicked(c) == c.panic # "none"

\* an add_constant that returns the index of an equal constant already in the pool
add_constant_Deduplicates(c, obj) ==
    IF Panicked(c) THEN c
    ELSE IF \E k \in 1..Len(c.byte_code.constants) : c.byte_code.constants[k] = obj
    THEN [c EXCEPT !.ret = (CHOOSE k \in 1..Len(c.byte_code.constants) :
                              c.byte_code.constants[k] = obj) - 1]
    ELSE LET constants == Append(c.byte_code.constants, obj)
         IN  [c EXCEPT !.byte_code.constants = constants,
                       !.ret = AsU16(Len(constants) - 1)]

\* fn add_constant(&mut self, obj: Object) -> u16
add_constant(c, obj) ==
    IF Panicked(c) THEN c
    ELSE LET constants == Append(c.byte_code.constants, obj)
         IN  [c EXCEPT !.byte_code.constants = constants,
                       !.ret = AsU16(Len(constants) - 1)]

\* fn add_instruction(&mut self, op_code: OpCode) -> u16
add_instruction(c, op_code) ==
    IF Panicked(c) THEN c
    ELSE [c EXCEPT !.byte_code.instructions = @ \o make_op(op_code),
                   !.ret = AsU16(Len(c.byte_code.instructions))]

\* a change_op that inserts the new instruction without removing the placeholder
change_op_Inserts(c, position, op_code) ==
    IF Panicked(c) THEN c
    ELSE LET instructions == c.byte_code.instructions
         IN  [c EXCEPT !.byte_code.instructions =
                  SubSeq(instructions, 1, position) \o make_op(op_code)
                  \o SubSeq(instructions, position + 1, Len(instructions))]

\* fn change_op(&mut self, position: usize, op_code: OpCode)
\* Vec::splice(position..position + op_bytes.len(), op_bytes)
change_op(c, position, op_code) ==
    IF Panicked(c) THEN c
    ELSE LET op_bytes == make_op(op_code)
             instructions == c.byte_code.instructions
             end == position + Len(op_bytes)
         IN  IF end > Len(instructions)
             THEN [c EXCEPT !.panic = "range end index out of range"]
             ELSE [c EXCEPT !.byte_code.instructions =
                      SubSeq(instructions, 1, position) \o op_bytes
                      \o SubSeq(instructions, end + 1, Len(instructions))]

\* fn last_instruction_is_pop(&self) -> bool: compares the last BYTE with 0x02
last_instruction_is_pop(c) ==
    LET instructions == c.byte_code.instructions
    IN  Len(instructions) > 0 /\ instructions[Len(instructions)] = make_op(OpPop)[1]

\* fn remove_last_pop(&mut self): Vec::pop
remove_last_pop(c) ==
    IF Panicked(c) THEN c
    ELSE LET instructions == c.byte_code.instructions
         IN  [c EXCEPT !.byte_code.instructions =
                  SubSeq(instructions, 1, Len(instructions) - 1)]

\* `self.byte_code.instructions.len() as u16 + 3`: a u16 addition
jump_over_else_target(c) ==
    LET here == AsU16(Len(c.byte_code.instructions))
    IN  IF here + 3 > U16Max /\ overflow_checks
        THEN [panic |-> "attempt to add with overflow", target |-> 0]
        ELSE [panic |-> "none", target |-> AsU16(here + 3)]

\* the opcode of `match operator` (compiler/mod.rs:82-94)
infix_opcode(operator) ==
    CASE operator = "Plus"        -> OpAdd
      [] operator = "Minus"       -> OpSub
      [] operator = "Multiply"    -> OpMul
      [] operator = "Divide"      -> OpDiv
      [] operator = "Equals"      -> OpEquals
      [] operator = "NotEquals"   -> OpNotEquals
      [] operator \in {"GreaterThan", "LessThan"} -> OpGreaterThan

RECURSIVE compile_expression(_, _), compile_statements(_, _)

\* a compiler that emits the operands of every infix expression left then right
compile_infix_operands_NoFlip(c, expr) ==
    compile_expression(compile_expression(c, expr.left), expr.right)

\* the first `match &operator` of Expr::Infix (compiler/mod.rs:70-81)
compile_infix_operands(c, expr) ==
    IF expr.operator = "LessThan"
    THEN compile_expression(compile_expression(c, expr.right), expr.left)
    ELSE compile_expression(compile_expression(c, expr.left), expr.right)

\* a compiler that never removes the Pop that ends a branch
strip_last_pop_Keeps(c) == c

\* `if self.last_instruction_is_pop() { self.remove_last_pop(); }`
strip_last_pop(c) ==
    IF last_instruction_is_pop(c) THEN remove_last_pop(c) ELSE c

\* compiler/mod.rs:131-134, c being the compiler after the alternative
if_patch_jump(c, op_jump_position) ==
    change_op(c, op_jump_position, OpJump(AsU16(Len(c.byte_code.instructions))))

\* compiler/mod.rs:125-134, c being the compiler after the first change_op
if_alternative(c, expr) ==
    if_patch_jump(
        strip_last_pop(compile_statements(add_instruction(c, OpJump(9999)), expr.alternative)),
        Len(c.byte_code.instructions))

\* a compiler that aims the conditional jump at the unconditional Jump itself
if_patch_jump_not_true_else_NoPlusThree(c, op_jump_position, t) ==
    IF Panicked(c) THEN c
    ELSE change_op(c, op_jump_position,
                   OpJumpNotTrue(AsU16(Len(c.byte_code.instructions))))

\* compiler/mod.rs:120-123, t being the value of `len() as u16 + 3`
if_patch_jump_not_true_else(c, op_jump_position, t) ==
    IF Panicked(c) THEN c
    ELSE IF t.panic # "none" THEN [c EXCEPT !.panic = t.panic]
    ELSE change_op(c, op_jump_position, OpJumpNotTrue(t.target))

\* a compiler that leaves the placeholder of a conditional without else
if_patch_jump_not_true_Unpatched(c, op_jump_position) == c

\* compiler/mod.rs:115-118
if_patch_jump_not_true(c, op_jump_position) ==
    change_op(c, op_jump_position, OpJumpNotTrue(AsU16(Len(c.byte_code.instructions))))

\* compiler/mod.rs:114-135, c being the compiler after the consequence
if_branches(c, op_jump_position, expr) ==
    IF expr.alternative = <<>>
    THEN if_patch_jump_not_true(c, op_jump_position)
    ELSE if_alternative(
             if_patch_jump_not_true_else(c, op_jump_position, jump_over_else_target(c)),
             expr)

\* compiler/mod.rs:108-135, c being the compiler after the condition
if_consequence(c, expr) ==
    if_branches(
        strip_last_pop(compile_statements(add_instruction(c, OpJumpNotTrue(9999)),
                                          expr.consequence)),
        Len(c.byte_code.instructions),
        expr)

\* the Expr::If arm of compile_expression (compiler/mod.rs:106-136)
compile_if(c, expr) ==
    if_consequence(compile_expression(c, expr.condition), expr)

\* the Expr::Const arm, c being the compiler after add_constant
compile_const(c) == add_instruction(c, OpConstant(c.ret))

\* a compiler that writes the global where it should read it
compile_ident_SetsGlobal(c, found) ==
    IF found.some
    THEN add_instruction(c, OpSetGlobal(found.index))
    ELSE [c EXCEPT !.panic = "attempted to use undefined variable"]

\* the Expr::Ident arm, found being the result of resolve
compile_ident(c, found) ==
    IF found.some
    THEN add_instruction(c, OpGetGlobal(found.index))
    ELSE [c EXCEPT !.panic = "attempted to use undefined variable"]

\* a compiler that emits nothing for an expression it does not know
compile_expression_SkipsUnsupported(c, expr) ==
    IF Panicked(c) THEN c
    ELSE CASE expr.expr = "Const" -> compile_const(add_constant(c, Integer(expr.num)))
           [] expr.expr = "Infix" ->
                add_instruction(compile_infix_operands(c, expr), infix_opcode(expr.operator))
           [] expr.expr = "Prefix" /\ expr.prefix = "Minus" ->
                add_instruction(compile_expression(c, expr.value), OpMinus)
           [] expr.expr = "Prefix" /\ expr.prefix = "Bang" ->
                add_instruction(compile_expression(c, expr.value), OpBang)
           [] expr.expr = "Boolean" ->
                add_instruction(c, IF expr.val THEN OpTrue ELSE OpFalse)
           [] expr.expr = "If" -> compile_if(c, expr)
           [] expr.expr = "Ident" -> compile_ident(c, resolve(c.symbol_table, expr.name))
           [] OTHER -> c

\* fn compile_expression(&mut self, expr: Expr)
compile_expression(c, expr) ==
    IF Panicked(c) THEN c
    ELSE CASE expr.expr = "Const" -> compile_const(add_constant(c, Integer(expr.num)))
           [] expr.expr = "Infix" ->
                add_instruction(compile_infix_operands(c, expr), infix_opcode(expr.operator))
           [] expr.expr = "Prefix" /\ expr.prefix = "Minus" ->
                add_instruction(compile_expression(c, expr.value), OpMinus)
           [] expr.expr = "Prefix" /\ expr.prefix = "Bang" ->
                add_instruction(compile_expression(c, expr.value), OpBang)
           [] expr.expr = "Boolean" ->
                add_instruction(c, IF expr.val THEN OpTrue ELSE OpFalse)
           [] expr.expr = "If" -> compile_if(c, expr)
           [] expr.expr = "Ident" -> compile_ident(c, resolve(c.symbol_table, expr.name))
           [] OTHER -> [c EXCEPT !.panic = "unsupported expression"]

\* the Statement::Let arm after the value: d is the result of define
compile_let_define(c, d) ==
    IF Panicked(c) THEN c
    ELSE IF d.panic # "none" THEN [c EXCEPT !.symbol_table = d.table, !.panic = d.panic]
    ELSE add_instruction([c EXCEPT !.symbol_table = d.table], OpSetGlobal(d.ret))

\* the Statement::Let arm, c being the compiler after the value (compiler/mod.rs:162-163)
compile_let(c, name) == compile_let_define(c, define(c.symbol_table, name))

\* a compile_statements that defines the name of a let before it compiles the value
compile_statement_DefinesFirst(c, statement) ==
    IF Panicked(c) THEN c
    ELSE CASE statement.stmt = "Let" ->
                add_instruction(
                    compile_expression(
                        [c EXCEPT !.symbol_table = define(c.symbol_table, statement.name).table],
                        statement.value),
                    OpSetGlobal(define(c.symbol_table, statement.name).ret))
           [] statement.stmt = "Return" -> [c EXCEPT !.panic = "not yet implemented"]
           [] statement.stmt = "Expression" ->
                add_instruction(compile_expression(c, statement.value), OpPop)

\* a compile_statements that pops after a let as it does after an expression
compile_statement_PopsAfterLet(c, statement) ==
    IF Panicked(c) THEN c
    ELSE CASE statement.stmt = "Let" ->
                add_instruction(
                    compile_let(compile_expression(c, statement.value), statement.name),
                    OpPop)
           [] statement.stmt = "Return" -> [c EXCEPT !.panic = "not yet implemented"]
           [] statement.stmt = "Expression" ->
                add_instruction(compile_expression(c, statement.value), OpPop)

\* one iteration of the loop of compile_statements (compiler/mod.rs:159-172)
compile_statement(c, statement) ==
    IF Panicked(c) THEN c
    ELSE CASE statement.stmt = "Let" ->
                compile_let(compile_expression(c, statement.value), statement.name)
           [] statement.stmt = "Return" -> [c EXCEPT !.panic = "not yet implemented"]
           [] statement.stmt = "Expression" ->
                add_instruction(compile_expression(c, statement.value), OpPop)

\* fn compile_statements(&mut self, ast: Vec<Statement>)
compile_statements(c, statements) ==
    IF statements = <<>> THEN c
    ELSE compile_statements(compile_statement(c, Head(statements)), Tail(statements))

-----------------------------------------------------------------------------
(* vm::VM.  The stack array is held as the sequence of the slots written so *)
(* far: push only ever writes slot sp, so the written slots are a prefix of *)
(* the array; every slot beyond it still holds the bytes of mem::zeroed.    *)

\* VM::new(byte_code)
VM_new(byte_code) ==
    [instructions |-> byte_code.instructions,
     constants |-> byte_code.constants,
     stack |-> <<>>,
     sp |-> 0]

\* fn push(&mut self, obj: Object): an indexed write, bounds-checked by the array
push(v, obj) ==
    IF v.sp >= STACK_SIZE
    THEN [vm |-> v, panic |-> "index out of bounds"]
    ELSE [vm |-> [v EXCEPT !.stack = IF v.sp < Len(v.stack)
                                     THEN [v.stack EXCEPT ![v.sp + 1] = obj]
                                     ELSE Append(v.stack, obj),
                           !.sp = v.sp + 1],
          panic |-> "none"]

\* a pop that clears the slot it frees
pop_ClearsSlot(v) ==
    IF v.sp = 0
    THEN [vm |-> v, ret |-> Null,
          panic |-> IF overflow_checks THEN "attempt to subtract with overflow"
                    ELSE "index out of bounds"]
    ELSE [vm |-> [v EXCEPT !.sp = v.sp - 1, !.stack = [v.stack EXCEPT ![v.sp] = Null]],
          ret |-> v.stack[v.sp], panic |-> "none"]

\* fn pop(&mut self) -> Object: `self.sp - 1` on a usize
pop(v) ==
    IF v.sp = 0
    THEN [vm |-> v, ret |-> Null,
          panic |-> IF overflow_checks THEN "attempt to subtract with overflow"
                    ELSE "index out of bounds"]
    ELSE [vm |-> [v EXCEPT !.sp = v.sp - 1], ret |-> v.stack[v.sp], panic |-> "none"]

\* an i32 operation whose division rounds toward minus infinity
int_op_FloorDiv(name, left, right) ==
    CASE name = "OpAdd" ->
            IF AddOverflows(left, right) /\ overflow_checks
            THEN [panic |-> "attempt to add with overflow"]
            ELSE [panic |-> "none", value |-> WrapAdd(left, right)]
      [] name = "OpSub" ->
            IF SubOverflows(left, right) /\ overflow_checks
            THEN [panic |-> "attempt to subtract with overflow"]
            ELSE [panic |-> "none", value |-> WrapSub(left, right)]
      [] name = "OpMul" ->
            IF MulOverflows(left, right) /\ overflow_checks
            THEN [panic |-> "attempt to multiply with overflow"]
            ELSE [panic |-> "none", value |-> WrapMul(left, right)]
      [] name = "OpDiv" ->
            IF right = 0 THEN [panic |-> "attempt to divide by zero"]
            ELSE IF left = MinI32 /\ right = -1
            THEN [panic |-> "attempt to divide with overflow"]
            ELSE [panic |-> "none", value |-> left \div right]

\* an i32 operation whose division by zero yields 0
int_op_ZeroQuotient(name, left, right) ==
    CASE name = "OpAdd" ->
            IF AddOverflows(left, right) /\ overflow_checks
            THEN [panic |-> "attempt to add with overflow"]
            ELSE [panic |-> "none", value |-> WrapAdd(left, right)]
      [] name = "OpSub" ->
            IF SubOverflows(left, right) /\ overflow_checks
            THEN [panic |-> "attempt to subtract with overflow"]
            ELSE [panic |-> "none", value |-> WrapSub(left, right)]
      [] name = "OpMul" ->
            IF MulOverflows(left, right) /\ overflow_checks
            THEN [panic |-> "attempt to multiply with overflow"]
            ELSE [panic |-> "none", value |-> WrapMul(left, right)]
      [] name = "OpDiv" ->
            IF right = 0 THEN [panic |-> "none", value |-> 0]
            ELSE IF left = MinI32 /\ right = -1
            THEN [panic |-> "attempt to divide with overflow"]
            ELSE [panic |-> "none", value |-> TruncDiv(left, right)]

\* the i32 operation of an arithmetic arm: + - * follow the build's overflow
\* checks, / panics on a zero divisor and on MinI32 / -1 in every build
int_op(name, left, right) ==
    CASE name = "OpAdd" ->
            IF AddOverflows(left, right) /\ overflow_checks
            THEN [panic |-> "attempt to add with overflow"]
            ELSE [panic |-> "none", value |-> WrapAdd(left, right)]
      [] name = "OpSub" ->
            IF SubOverflows(left, right) /\ overflow_checks
            THEN [panic |-> "attempt to subtract with overflow"]
            ELSE [panic |-> "none", value |-> WrapSub(left, right)]
      [] name = "OpMul" ->
            IF MulOverflows(left, right) /\ overflow_checks
            THEN [panic |-> "attempt to multiply with overflow"]
            ELSE [panic |-> "none", value |-> WrapMul(left, right)]
      [] name = "OpDiv" ->
            IF right = 0 THEN [panic |-> "attempt to divide by zero"]
            ELSE IF left = MinI32 /\ right = -1
            THEN [panic |-> "attempt to divide with overflow"]
            ELSE [panic |-> "none", value |-> TruncDiv(left, right)]

\* the end of an arithmetic arm: v is the VM after both pops, r the result
arith_push(v, r) ==
    IF r.panic # "none" THEN [vm |-> v, panic |-> r.panic]
    ELSE push(v, Integer(r.value))

\* an arithmetic arm that takes the first value popped as the left operand
arith_match_OperandsSwapped(first, second, name) ==
    IF first.panic # "none" THEN [vm |-> first.vm, panic |-> first.panic]
    ELSE IF second.panic # "none" THEN [vm |-> second.vm, panic |-> second.panic]
    ELSE IF first.ret.tag = "Integer" /\ second.ret.tag = "Integer"
    THEN arith_push(second.vm, int_op(name, first.ret.int, second.ret.int))
    ELSE [vm |-> second.vm, panic |-> "unhandled argument types to " \o name]

\* the match of an arithmetic arm on (first, second), the results of the two pops:
\* (Object::Integer(right), Object::Integer(left)) => push(left op right)
arith_match(first, second, name) ==
    IF first.panic # "none" THEN [vm |-> first.vm, panic |-> first.panic]
    ELSE IF second.panic # "none" THEN [vm |-> second.vm, panic |-> second.panic]
    ELSE IF first.ret.tag = "Integer" /\ second.ret.tag = "Integer"
    THEN arith_push(second.vm, int_op(name, second.ret.int, first.ret.int))
    ELSE [vm |-> second.vm, panic |-> "unhandled argument types to " \o name]

\* the second pop of match (self.pop(), self.pop())
arith_second(first, name) == arith_match(first, pop(first.vm), name)

\* the arms 0x03..0x06 of VM::run: match (self.pop(), self.pop())
arith(v, name) == arith_second(pop(v), name)

\* the arm 0x01 of VM::run; at is the value of ip after `ip += 1`
op_constant(v, at) ==
    IF at + 1 >= Len(v.instructions)
    THEN [vm |-> v, panic |-> "index out of bounds"]
    ELSE LET const_index ==
                 convert_two_u8s_be_to_usize(v.instructions[at + 1], v.instructions[at + 2])
         IN  IF const_index >= Len(v.constants)
             THEN [vm |-> v, panic |-> "index out of bounds"]
             ELSE push(v, v.constants[const_index + 1])

\* the arm 0x02 of VM::run
op_pop(v) ==
    LET p == pop(v) IN [vm |-> p.vm, panic |-> p.panic]

\* the objects a read of a slot that was never written can yield
ZeroedObjects == {Integer(0), String(""), Boolean(FALSE), Null}

\* fn last_popped(&self) -> &Object: the outcomes of &self.stack[self.sp]
last_popped(v) ==
    IF v.sp >= STACK_SIZE THEN {[panic |-> "index out of bounds"]}
    ELSE IF v.sp < Len(v.stack) THEN {[panic |-> "none", value |-> v.stack[v.sp + 1]]}
    ELSE {[panic |-> "none", value |-> o] : o \in ZeroedObjects}

-----------------------------------------------------------------------------
(* The programs that are compiled and run *)

MaxLit == 3
MaxLets == 2

LetNames == <<"a", "b", "c">>

\* `let a = 1; let b = 2; ...`: the first n let statements
RECURSIVE Lets(_)
Lets(n) == IF n = 0 THEN <<>> ELSE Append(Lets(n - 1), Let(LetNames[((n - 1) % 3) + 1], Const(n)))

Programs ==
    LET
        \* integer literals: the small ones, those of the examples, and the largest i32
        IntLits == (0..MaxLit) \cup {6, MaxI32}
        \* `a op b;`
        InfixPrograms ==
            {<<Expression(Infix(Const(a), op, Const(b)))>> : a \in IntLits, b \in IntLits, op \in Operator}
        \* `(1 op1 2) op2 3;` and `1 op1 (2 op2 3);`
        NestedInfixPrograms ==
            {<<Expression(Infix(Infix(Const(1), op1, Const(2)), op2, Const(3)))>> :
                op1 \in Operator, op2 \in Operator}
            \cup
            {<<Expression(Infix(Const(1), op1, Infix(Const(2), op2, Const(3))))>> :
                op1 \in Operator, op2 \in Operator}
            \cup
            \* `(1 - 8) / 2;` and `(1 - 8) * 2;`: a negative left operand
            {<<Expression(Infix(Infix(Const(1), "Minus", Const(8)), op2, Const(2)))>> :
                op2 \in {"Divide", "Multiply"}}
        Conditions ==
            {BooleanLit(TRUE), BooleanLit(FALSE), Infix(Const(1), "LessThan", Const(2)), Const(1)}
        Consequences ==
            {<<>>,
             <<Expression(Const(10))>>,
             <<Expression(Const(1)), Expression(Const(10))>>,
             <<Let("x", Const(3))>>,
             <<Expression(If(BooleanLit(TRUE), <<Expression(Const(10))>>, <<>>))>>}
        Alternatives ==
            {<<>>,
             <<Expression(Const(20))>>,
             <<Let("y", Const(4))>>}
        Followers == {<<>>, <<Expression(Const(3333))>>}
        \* `let ...; if (c) { A } else { B }; 3333;`
        IfPrograms ==
            {Lets(n) \o <<Expression(If(c, A, B))>> \o f :
                n \in 0..MaxLets, c \in Conditions, A \in Consequences, B \in Alternatives,
                f \in Followers}
        LetValues == {Const(1), Infix(Const(1), "Plus", Const(2)), BooleanLit(TRUE), Ident("one")}
        \* `let x = e; y;`
        LetPrograms ==
            {<<Let(x, e), Expression(Ident(y))>> : x \in {"one", "two"}, e \in LetValues,
                                                   y \in {"one", "two"}}
            \cup {<<Let(x, e)>> : x \in {"one"}, e \in LetValues}
            \cup {<<Let("one", Const(1)), Let("two", Const(2))>>,
                  <<Let("one", Const(1)), Let("one", Const(2)), Expression(Ident("one"))>>,
                  <<Let("one", Const(1)),
                    Expression(If(BooleanLit(TRUE), <<Let("x", Const(3))>>, <<Let("y", Const(4))>>)),
                    Let("two", Infix(Const(1), "Plus", Const(2))),
                    Expression(Ident("two"))>>,
                  <<Let("one", Const(1)), Let("two", Ident("one")), Expression(Ident("two")),
                    Expression(Infix(Ident("one"), "Plus", Ident("two")))>>,
                  <<Let("one", Const(1)), Expression(Infix(Ident("one"), "Plus", Ident("foo")))>>,
                  <<Let("one", Const(1)), Let("two", Infix(Const(2), "Plus", Ident("foo")))>>,
                  \* a let whose value reads the name it binds
                  <<Let("a", Const(1)), Let("a", Infix(Ident("a"), "Plus", Const(1)))>>,
                  <<Let("a", Const(1)), Let("b", Const(2)), Let("a", Ident("a")),
                    Expression(Ident("a"))>>,
                  <<Let("a", Const(1)), Let("b", Infix(Ident("b"), "Plus", Const(1)))>>}
        OtherPrograms ==
            {<<>>,
             <<Expression(BooleanLit(TRUE))>>,
             <<Expression(BooleanLit(FALSE))>>,
             <<Expression(Const(5))>>,
             <<Expression(Prefix("Minus", Const(5)))>>,
             <<Expression(Prefix("Bang", BooleanLit(TRUE)))>>,
             <<Expression(Infix(BooleanLit(TRUE), "Plus", Const(1)))>>,
             <<Expression(Infix(Const(1), "Plus", BooleanLit(TRUE)))>>,
             <<Expression(StringLit("foo bar"))>>,
             <<Return(Const(10))>>,
             <<Expression(Function(<<"x">>, <<Expression(Ident("x"))>>))>>,
             <<Expression(Call(Ident("f"), <<Const(1)>>))>>,
             <<Expression(Ident("foo"))>>,
             <<Expression(Infix(Const(1), "Plus", Ident("foo")))>>,
             <<Expression(Infix(Const(1), "LessThan", Ident("foo")))>>,
             <<Expression(Const(5)), Expression(Prefix("Minus", Ident("foo")))>>,
             <<Let("f", Function(<<"x">>, <<Expression(Ident("x"))>>))>>,
             <<Expression(Const(5)),
               Expression(If(BooleanLit(FALSE), <<Expression(Call(Ident("f"), <<Const(1)>>))>>, <<>>))>>,
             <<Expression(If(BooleanLit(TRUE), <<Expression(Const(10))>>,
                             <<Expression(Function(<<>>, <<>>))>>))>>,
             <<Expression(Infix(Const(1), "Plus", Call(Ident("f"), <<>>)))>>,
             <<Expression(StringLit("foo")), Expression(StringLit("foo"))>>,
             <<Let("s", StringLit(""))>>,
             \* several expression statements of literals and arithmetic
             <<Expression(Const(1)), Expression(Const(2))>>,
             <<Expression(Infix(Const(1), "Plus", Const(2))), Expression(BooleanLit(TRUE))>>,
             <<Expression(BooleanLit(TRUE)), Expression(Infix(Const(6), "Divide", Const(2)))>>,
             <<Expression(Infix(Const(1), "Minus", Const(2))),
               Expression(Infix(Infix(Const(1), "Minus", Const(8)), "Divide", Const(2))),
               Expression(Infix(Const(3), "Multiply", Infix(Const(2), "Minus", Const(6))))>>,
             <<Expression(Infix(BooleanLit(TRUE), "Plus", BooleanLit(TRUE)))>>,
             <<Expression(Infix(Const(1), "Divide", Const(0))), Expression(Const(2))>>}
    IN
        InfixPrograms \cup NestedInfixPrograms \cup IfPrograms \cup LetPrograms \cup OtherPrograms

-----------------------------------------------------------------------------
(* Spec: compile_from_source, VM::new, VM::run and last_popped, as the      *)
(* tests drive them (vm/mod.rs:124-131)                                     *)

NoVM == [instructions |-> <<>>, constants |-> <<>>, stack |-> <<>>, sp |-> 0]
NoResult == [panic |-> "none"]
NoCall == [fn |-> "none"]
NoTable == [last |-> [fn |-> "none"]]
NoRepl == [count |-> 0]

Init ==
    /\ ast \in Programs
    /\ overflow_checks \in BOOLEAN
    /\ phase = "source"
    /\ compiler = Compiler_new
    /\ vm = NoVM
    /\ ip = 0
    /\ panic = "none"
    /\ trace = <<>>
    /\ result = NoResult
    /\ codec = NoCall
    /\ symbols = NoTable
    /\ repl = NoRepl

\* Compiler::compile_from_source, after lexing and parsing
Compile ==
    /\ phase = "source"
    /\ LET c == compile_statements(Compiler_new, ast)
       IN  /\ compiler' = c
           /\ panic' = c.panic
           /\ phase' = IF Panicked(c) THEN "panicked" ELSE "compiled"
    /\ UNCHANGED <<ast, overflow_checks, vm, ip, trace, result, codec, symbols, repl>>

\* VM::new(byte_code) and the entry of VM::run: `let mut ip = 0`
VMNew ==
    /\ phase = "compiled"
    /\ vm' = VM_new(compiler.byte_code)
    /\ ip' = 0
    /\ phase' = "running"
    /\ UNCHANGED <<ast, overflow_checks, compiler, panic, trace, result, codec, symbols, repl>>

\* the head of one iteration of `while ip < self.instructions.len()`
Fetching(byte) ==
    /\ phase = "running"
    /\ ip < Len(vm.instructions)
    /\ vm.instructions[ip + 1] = byte

\* a loop that executes the same instruction again: ip is not advanced
Executed_StaysPut(out, next_ip) ==
    /\ vm' = out.vm
    /\ panic' = out.panic
    /\ ip' = ip
    /\ phase' = IF out.panic = "none" THEN "running" ELSE "panicked"
    /\ trace' = Append(trace, ip)
    /\ UNCHANGED <<ast, overflow_checks, compiler, result, codec, symbols, repl>>

\* the end of an iteration whose arm left (vm, panic) and the next ip
Executed(out, next_ip) ==
    /\ vm' = out.vm
    /\ panic' = out.panic
    /\ ip' = next_ip
    /\ phase' = IF out.panic = "none" THEN "running" ELSE "panicked"
    /\ trace' = Append(trace, ip)
    /\ UNCHANGED <<ast, overflow_checks, compiler, result, codec, symbols, repl>>

ExecOpConstant == Fetching(1) /\ Executed(op_constant(vm, ip + 1), ip + 3)
ExecOpPop == Fetching(2) /\ Executed(op_pop(vm), ip + 1)
ExecOpAdd == Fetching(3) /\ Executed(arith(vm, "OpAdd"), ip + 1)
ExecOpSub == Fetching(4) /\ Executed(arith(vm, "OpSub"), ip + 1)
ExecOpMul == Fetching(5) /\ Executed(arith(vm, "OpMul"), ip + 1)
ExecOpDiv == Fetching(6) /\ Executed(arith(vm, "OpDiv"), ip + 1)
ExecOpTrue == Fetching(7) /\ Executed(push(vm, Boolean(TRUE)), ip + 1)
ExecOpFalse == Fetching(8) /\ Executed(push(vm, Boolean(FALSE)), ip + 1)

\* the arm `_ => panic!("unhandled instruction")`
ExecUnhandled ==
    /\ phase = "running"
    /\ ip < Len(vm.instructions)
    /\ vm.instructions[ip + 1] \notin 1..8
    /\ Executed([vm |-> vm, panic |-> "unhandled instruction"], ip + 1)

\* the loop condition fails: VM::run returns
RunReturns ==
    /\ phase = "running"
    /\ ip >= Len(vm.instructions)
    /\ phase' = "ran"
    /\ UNCHANGED <<ast, overflow_checks, compiler, vm, ip, panic, trace, result, codec, symbols, repl>>

\* the caller reads vm.last_popped()
LastPopped ==
    /\ phase = "ran"
    /\ \E r \in last_popped(vm) :
          /\ result' = r
          /\ panic' = r.panic
          /\ phase' = IF r.panic = "none" THEN "done" ELSE "panicked"
    /\ UNCHANGED <<ast, overflow_checks, compiler, vm, ip, trace, codec, symbols, repl>>

Next ==
    \/ Compile
    \/ VMNew
    \/ ExecOpConstant
    \/ ExecOpPop
    \/ ExecOpAdd
    \/ ExecOpSub
    \/ ExecOpMul
    \/ ExecOpDiv
    \/ ExecOpTrue
    \/ ExecOpFalse
    \/ ExecUnhandled
    \/ RunReturns
    \/ LastPopped

Spec == Init /\ [][Next]_vars

\* the steps of the test once compile_from_source has returned
Run ==
    \/ VMNew
    \/ ExecOpConstant
    \/ ExecOpPop
    \/ ExecOpAdd
    \/ ExecOpSub
    \/ ExecOpMul
    \/ ExecOpDiv
    \/ ExecOpTrue
    \/ ExecOpFalse
    \/ ExecUnhandled
    \/ RunReturns
    \/ LastPopped

\* the same program with the progress of the run: the test is the only thread, and
\* a step of VM::new, VM::run or last_popped that can be taken is taken
SpecRun == Init /\ [][Next]_vars /\ WF_vars(Run)

-----------------------------------------------------------------------------
(* SpecCodec: the functions of code/mod.rs applied to every input.  codec   *)
(* holds the value in hand (val, of the given kind), the input the chain of *)
(* calls started from (origin) and the number of calls made (hops).         *)

\* a call chain that starts from the input val of the given kind
CodecStart(kind, val) ==
    [fn |-> "input", kind |-> kind, val |-> val, origin |-> val, hops |-> 0]

InitCodec ==
    LET
        AllOpCodes ==
            {Op(n) : n \in PlainOps}
            \cup {[op |-> n, arg |-> a] : n \in OperandOps \cup {"OpGetGlobal"}, a \in 0..U16Max}
    IN
        /\ \/ \E v \in 0..U16Max : codec = CodecStart("u16", v)
           \/ \E b0 \in 0..U8Max, b1 \in 0..U8Max : codec = CodecStart("bytes", <<b0, b1>>)
           \/ \E o \in AllOpCodes : codec = CodecStart("op", o)
        /\ ast = <<>>
        /\ overflow_checks = TRUE
        /\ phase = "codec"
        /\ compiler = Compiler_new
        /\ vm = NoVM
        /\ ip = 0
        /\ panic = "none"
        /\ trace = <<>>
        /\ result = NoResult
        /\ symbols = NoTable
        /\ repl = NoRepl

CodecReturns(fn, kind, val) ==
    /\ codec' = [codec EXCEPT !.fn = fn, !.kind = kind, !.val = val, !.hops = @ + 1]
    /\ UNCHANGED <<ast, overflow_checks, phase, compiler, vm, ip, panic, trace, result, symbols, repl>>

\* convert_u16_to_two_u8s_be(v), or convert_u16_to_two_u8s_be(n as u16) on a decoded usize
CallConvertU16 ==
    /\ phase = "codec"
    /\ codec.kind \in {"u16", "usize"}
    /\ codec.hops < 2
    /\ CodecReturns("convert_u16_to_two_u8s_be", "bytes",
                    convert_u16_to_two_u8s_be(AsU16(codec.val)))

\* convert_two_u8s_be_to_usize(b0, b1)
CallConvertBytes ==
    /\ phase = "codec"
    /\ codec.kind = "bytes"
    /\ codec.hops < 2
    /\ CodecReturns("convert_two_u8s_be_to_usize", "usize",
                    convert_two_u8s_be_to_usize(codec.val[1], codec.val[2]))

\* make_op(op)
CallMakeOp ==
    /\ phase = "codec"
    /\ codec.kind = "op"
    /\ CodecReturns("make_op", "vec", make_op(codec.val))

NextCodec == CallConvertU16 \/ CallConvertBytes \/ CallMakeOp

SpecCodec == InitCodec /\ [][NextCodec]_vars

-----------------------------------------------------------------------------
(* SpecTable: define and resolve called on one SymbolTable.  symbols holds  *)
(* the struct (symbol_table) and the history of the calls: first, the       *)
(* number of define calls made on the table before the first step of the    *)
(* behaviour; returned, the slots the define calls of the behaviour have    *)
(* returned, in order; latest, for each name the slot its most recent       *)
(* define returned; last, the last call and what it returned.               *)

MaxCalls == 4

SymbolNames == {"a", "b", "c"}

InitTable ==
    LET
        \* tables start fresh, or two slots short of the last u16
        TableStarts == {0, U16Max - 1}
        \* the bindings after `first` calls: define("a") every time, or define("b") once
        \* and define("a") ever after
        StoresAfter(first) ==
            IF first = 0 THEN {<<>>}
            ELSE {[n \in {"a"} |-> first - 1],
                  [n \in {"a", "b"} |-> IF n = "a" THEN first - 1 ELSE 0]}
        TableStart(first, store) ==
            [symbol_table |-> [store |-> store, next_index |-> first],
             first |-> first,
             returned |-> <<>>,
             latest |-> store,
             last |-> [fn |-> "none"]]
    IN
        /\ \E first \in TableStarts : \E store \in StoresAfter(first) :
              symbols = TableStart(first, store)
        /\ repl = NoRepl
        /\ overflow_checks \in BOOLEAN
        /\ phase = "table"
        /\ ast = <<>>
        /\ compiler = Compiler_new
        /\ vm = NoVM
        /\ ip = 0
        /\ panic = "none"
        /\ trace = <<>>
        /\ result = NoResult
        /\ codec = NoCall

\* symbol_table.define(name)
CallDefine(name, d) ==
    LET
        \* symbols after a define that returned d.ret
        Defined ==
            [symbols EXCEPT !.symbol_table = d.table,
                            !.returned = Append(symbols.returned, d.ret),
                            !.latest = [n \in DOMAIN symbols.latest \cup {name} |->
                                           IF n = name THEN d.ret ELSE symbols.latest[n]],
                            !.last = [fn |-> "define", name |-> name, index |-> d.ret]]
        \* symbols after a define that panicked on `self.next_index += 1`
        DefinePanicked ==
            [symbols EXCEPT !.symbol_table = d.table,
                            !.last = [fn |-> "define", name |-> name]]
    IN
        /\ phase = "table"
        /\ Len(symbols.returned) < MaxCalls
        /\ symbols' = IF d.panic = "none" THEN Defined ELSE DefinePanicked
        /\ panic' = d.panic
        /\ phase' = IF d.panic = "none" THEN "table" ELSE "panicked"
        /\ UNCHANGED <<ast, overflow_checks, compiler, vm, ip, trace, result, codec, repl>>

Define == \E name \in SymbolNames : CallDefine(name, define(symbols.symbol_table, name))

\* symbol_table.resolve(&name)
Resolve ==
    /\ phase = "table"
    /\ \E name \in SymbolNames :
          symbols' = [symbols EXCEPT !.last = [fn |-> "resolve", name |-> name,
                                               found |-> resolve(symbols.symbol_table, name)]]
    /\ UNCHANGED <<ast, overflow_checks, phase, compiler, vm, ip, panic, trace, result, codec, repl>>

NextTable == Define \/ Resolve

SpecTable == InitTable /\ [][NextTable]_vars

-----------------------------------------------------------------------------
(* The tree-walking evaluator (src/eval/mod.rs, src/eval/env.rs).  An        *)
(* evaluation st is the environment in hand (env), the object the last      *)
(* function returned (obj), the message of the panic that ended the process *)
(* (panic, "none" while it runs), and the history: depth, the number of     *)
(* function calls in progress, and log, the statements eval_statement has   *)
(* returned from, each with its depth and the object it returned.           *)

Object_Return(obj) == [tag |-> "Return", value |-> obj]
Object_Function(parameters, body) ==
    [tag |-> "Function", parameters |-> parameters, body |-> body]

\* Env::new(): an empty HashMap
Env_new == [key \in {} |-> Null]

\* Env::set: HashMap::insert
Env_set(env, key, value) ==
    [k \in (DOMAIN env) \cup {key} |-> IF k = key THEN value ELSE env[k]]

\* Env::get: a clone of the value, or None
Env_get(env, key) ==
    IF key \in DOMAIN env THEN [some |-> TRUE, value |-> env[key]] ELSE [some |-> FALSE]

EvalStart(env) == [obj |-> Null, env |-> env, panic |-> "none", log |-> <<>>, depth |-> 0]

eval_panic(st, message) == [st EXCEPT !.panic = message]
eval_value(st, obj) == [st EXCEPT !.obj = obj]

\* an outcome v = [panic], or [panic |-> "none", obj], becomes the evaluation's
eval_outcome(st, v) ==
    IF v.panic # "none" THEN eval_panic(st, v.panic) ELSE eval_value(st, v.obj)

RECURSIVE eval_expr(_, _), eval_statements(_, _), eval_return_scope(_, _)

\* the arms Expr::Prefix; r is the evaluation of the operand
eval_prefix(prefix, r) ==
    IF r.panic # "none" THEN r
    ELSE IF prefix = "Bang"
    THEN IF r.obj.tag = "Boolean" THEN eval_value(r, Boolean(~r.obj.bool))
         ELSE eval_panic(r, "! operator only valid for boolean type")
    ELSE IF r.obj.tag # "Integer"
    THEN eval_panic(r, "minus operator only valid for integer type")
    ELSE IF r.obj.int # MinI32 THEN eval_value(r, Integer(-r.obj.int))
    ELSE IF overflow_checks THEN eval_panic(r, "attempt to negate with overflow")
    ELSE eval_value(r, Integer(MinI32))

\* the `_ => panic!(...)` of each Expr::Infix arm
InfixPanic ==
    [operator \in Operator |->
        CASE operator = "Plus" -> "plus operator used on invalid types"
          [] operator = "Minus" -> "minus operator only valid on integer types"
          [] operator = "Multiply" -> "multiply operator only valid on integer types"
          [] operator = "Divide" -> "divide operator only valid on integer types"
          [] operator = "LessThan" -> "less than operator only valid on integer types"
          [] operator = "GreaterThan" -> "greater than operator only valid on integer types"
          [] operator = "Equals" -> "equals operator used on invalid types"
          [] operator = "NotEquals" -> "not equals operator used on invalid types"]

\* r is the outcome of the i32 operation
infix_integer(r) ==
    IF r.panic # "none" THEN [panic |-> r.panic]
    ELSE [panic |-> "none", obj |-> Integer(r.value)]

\* an evaluator whose subtraction takes its operands in the other order
infix_integers_MinusReversed(operator, left, right) ==
    CASE operator = "Plus" -> infix_integer(int_op("OpAdd", left, right))
      [] operator = "Minus" -> infix_integer(int_op("OpSub", right, left))
      [] operator = "Multiply" -> infix_integer(int_op("OpMul", left, right))
      [] operator = "Divide" -> infix_integer(int_op("OpDiv", left, right))
      [] operator = "LessThan" -> [panic |-> "none", obj |-> Boolean(left < right)]
      [] operator = "GreaterThan" -> [panic |-> "none", obj |-> Boolean(left > right)]
      [] operator = "Equals" -> [panic |-> "none", obj |-> Boolean(left = right)]
      [] operator = "NotEquals" -> [panic |-> "none", obj |-> Boolean(left # right)]

\* the arms (Object::Integer(left), Object::Integer(right)) of Expr::Infix
infix_integers(operator, left, right) ==
    CASE operator = "Plus" -> infix_integer(int_op("OpAdd", left, right))
      [] operator = "Minus" -> infix_integer(int_op("OpSub", left, right))
      [] operator = "Multiply" -> infix_integer(int_op("OpMul", left, right))
      [] operator = "Divide" -> infix_integer(int_op("OpDiv", left, right))
      [] operator = "LessThan" -> [panic |-> "none", obj |-> Boolean(left < right)]
      [] operator = "GreaterThan" -> [panic |-> "none", obj |-> Boolean(left > right)]
      [] operator = "Equals" -> [panic |-> "none", obj |-> Boolean(left = right)]
      [] operator = "NotEquals" -> [panic |-> "none", obj |-> Boolean(left # right)]

\* the match of an Expr::Infix arm on the two operand objects
infix_match(operator, left, right) ==
    IF left.tag = "Integer" /\ right.tag = "Integer"
    THEN infix_integers(operator, left.int, right.int)
    ELSE IF left.tag = "String" /\ right.tag = "String" /\ operator = "Plus"
    THEN [panic |-> "none", obj |-> String(left.str \o right.str)]
    ELSE IF left.tag = "Boolean" /\ right.tag = "Boolean" /\ operator = "Equals"
    THEN [panic |-> "none", obj |-> Boolean(left.bool = right.bool)]
    ELSE IF left.tag = "Boolean" /\ right.tag = "Boolean" /\ operator = "NotEquals"
    THEN [panic |-> "none", obj |-> Boolean(left.bool # right.bool)]
    ELSE [panic |-> InfixPanic[operator]]

\* left is the object of the left operand, r the evaluation of the right one
eval_infix_match(operator, left, r) ==
    IF r.panic # "none" THEN r ELSE eval_outcome(r, infix_match(operator, left, r.obj))

\* match (eval_expr(*left, env), eval_expr(*right, env)); l is the evaluation of left
eval_infix(expression, l) ==
    IF l.panic # "none" THEN l
    ELSE eval_infix_match(expression.operator, l.obj, eval_expr(expression.right, l))

\* a conditional that takes the consequence unless the condition is Boolean(false)
eval_if_UnlessFalse(expression, c) ==
    IF c.panic # "none" THEN c
    ELSE IF c.obj.tag = "Boolean" /\ ~c.obj.bool
    THEN eval_statements(expression.alternative, c)
    ELSE eval_statements(expression.consequence, c)

\* the arm Expr::If; c is the evaluation of the condition
eval_if(expression, c) ==
    IF c.panic # "none" THEN c
    ELSE IF c.obj.tag = "Boolean" /\ c.obj.bool
    THEN eval_statements(expression.consequence, c)
    ELSE eval_statements(expression.alternative, c)

\* the arm Expr::Ident: env.get(&name).expect(...)
eval_ident(found, st) ==
    IF found.some THEN eval_value(st, found.value)
    ELSE eval_panic(st, "attempted access to invalid binding")

\* let (parameters, body) = match *function { ... }
callee(function, env) ==
    LET
        \* the function named by a call: found is env.get(&func_name)
        callee_ident(found) ==
            IF ~found.some THEN [panic |-> "tried to call function which was not defined"]
            ELSE IF found.value.tag = "Function"
            THEN [panic |-> "none", parameters |-> found.value.parameters, body |-> found.value.body]
            ELSE [panic |-> "attempted to call non-function"]
    IN
        IF function.expr = "Ident" THEN callee_ident(Env_get(env, function.name))
        ELSE IF function.expr = "Function"
        THEN [panic |-> "none", parameters |-> function.parameters, body |-> function.body]
        ELSE [panic |-> "attempted to call non-function"]

\* env_func.set(parameter, eval_expr(arg_value, env)); r is the evaluation of the
\* argument in the caller's environment
bind_argument(parameter, r, env_func) ==
    [caller |-> r,
     env_func |-> IF r.panic # "none" THEN env_func ELSE Env_set(env_func, parameter, r.obj)]

\* the loop over parameters.zip(arguments), from the i-th pair on
RECURSIVE bind_arguments(_, _, _, _)
bind_arguments(parameters, arguments, i, b) ==
    IF b.caller.panic # "none" \/ i > Len(parameters) THEN b
    ELSE bind_arguments(parameters, arguments, i + 1,
             bind_argument(parameters[i], eval_expr(arguments[i], b.caller), b.env_func))

\* the caller's evaluation once the body has returned r
call_returns(caller, r) == [r EXCEPT !.env = caller.env, !.depth = caller.depth]

\* a call whose body is evaluated without unwrapping Object::Return
call_body_KeepsReturn(body, b) ==
    IF b.caller.panic # "none" THEN b.caller
    ELSE call_returns(b.caller,
             eval_statements(body, [b.caller EXCEPT !.env = b.env_func, !.depth = @ + 1]))

\* eval_return_scope(body, &mut env_func)
call_body(body, b) ==
    IF b.caller.panic # "none" THEN b.caller
    ELSE call_returns(b.caller,
             eval_return_scope(body, [b.caller EXCEPT !.env = b.env_func, !.depth = @ + 1]))

\* a call that binds the parameters in the caller's environment
call_function_SharesEnv(f, arguments, st) ==
    IF f.panic # "none" THEN eval_panic(st, f.panic)
    ELSE IF Len(f.parameters) # Len(arguments)
    THEN eval_panic(st, "called function with wrong number of parameters")
    ELSE call_body(f.body,
             bind_arguments(f.parameters, arguments, 1, [caller |-> st, env_func |-> st.env]))

\* assert_eq!(parameters.len(), arguments.len(), ...) and what follows it
call_function(f, arguments, st) ==
    IF f.panic # "none" THEN eval_panic(st, f.panic)
    ELSE IF Len(f.parameters) # Len(arguments)
    THEN eval_panic(st, "called function with wrong number of parameters")
    ELSE call_body(f.body,
             bind_arguments(f.parameters, arguments, 1, [caller |-> st, env_func |-> Env_new]))

\* the arm Expr::Call
eval_call(expression, st) ==
    call_function(callee(expression.function, st.env), expression.arguments, st)

\* fn eval_expr(expression: Expr, env: &mut Env) -> Object
eval_expr(expression, st) ==
    IF st.panic # "none" THEN st
    ELSE CASE expression.expr = "String" -> eval_value(st, String(expression.text))
           [] expression.expr = "Const" -> eval_value(st, Integer(expression.num))
           [] expression.expr = "Boolean" -> eval_value(st, Boolean(expression.val))
           [] expression.expr = "Prefix" ->
                 eval_prefix(expression.prefix, eval_expr(expression.value, st))
           [] expression.expr = "Infix" -> eval_infix(expression, eval_expr(expression.left, st))
           [] expression.expr = "If" -> eval_if(expression, eval_expr(expression.condition, st))
           [] expression.expr = "Ident" -> eval_ident(Env_get(st.env, expression.name), st)
           [] expression.expr = "Function" ->
                 eval_value(st, Object_Function(expression.parameters, expression.body))
           [] expression.expr = "Call" -> eval_call(expression, st)

\* eval_statement has returned r for the statement: the history records it
logged(statement, r) ==
    IF r.panic # "none" THEN r
    ELSE [r EXCEPT !.log = Append(@, [stmt |-> statement, depth |-> r.depth, obj |-> r.obj])]

\* env.set(name, value.clone()); value
let_set(name, r) ==
    IF r.panic # "none" THEN r ELSE [r EXCEPT !.env = Env_set(@, name, r.obj)]

\* Object::Return(Box::new(...))
return_wrap(r) ==
    IF r.panic # "none" THEN r ELSE eval_value(r, Object_Return(r.obj))

\* fn eval_statement(statement: Statement, env: &mut Env) -> Object
eval_statement(statement, st) ==
    IF st.panic # "none" THEN st
    ELSE CASE statement.stmt = "Expression" ->
                 logged(statement, eval_expr(statement.value, st))
           [] statement.stmt = "Let" ->
                 logged(statement, let_set(statement.name, eval_expr(statement.value, st)))
           [] statement.stmt = "Return" ->
                 logged(statement, return_wrap(eval_expr(statement.value, st)))

RECURSIVE eval_statements_loop(_, _, _)

\* a loop that goes on to the next statement after an Object::Return
eval_statements_next_GoesOn(statements, i, r) ==
    IF r.panic # "none" THEN r
    ELSE eval_statements_loop(statements, i + 1, r)

\* `if let &Object::Return(_) = &result { return result; }`
eval_statements_next(statements, i, r) ==
    IF r.panic # "none" THEN r
    ELSE IF r.obj.tag = "Return" THEN r
    ELSE eval_statements_loop(statements, i + 1, r)

\* `for statement in statements`, from the i-th statement on
eval_statements_loop(statements, i, st) ==
    IF st.panic # "none" \/ i > Len(statements) THEN st
    ELSE eval_statements_next(statements, i, eval_statement(statements[i], st))

\* fn eval_statements: `let mut result = Object::Null` and the loop
eval_statements(statements, st) ==
    IF st.panic # "none" THEN st
    ELSE eval_statements_loop(statements, 1, eval_value(st, Null))

\* the match of eval_return_scope: Object::Return(res) => *res
unwrap_return(r) ==
    IF r.panic = "none" /\ r.obj.tag = "Return" THEN eval_value(r, r.obj.value) ELSE r

\* pub fn eval_return_scope(statements: Vec<Statement>, env: &mut Env) -> Object
eval_return_scope(statements, st) == unwrap_return(eval_statements(statements, st))

-----------------------------------------------------------------------------
(* SpecStack: VM::run on the byte code of `1 + (1 + (1 + ... ));`, the sum  *)
(* of n literals nested to the right, for the depths around STACK_SIZE.     *)
(* The tree of such a program is n levels deep; the behaviour starts where  *)
(* compile_from_source has returned its byte code, or where VM::run has     *)
(* pushed all but the last constants, and ast holds the program by its      *)
(* depth.                                                                   *)

SmallDepth == 6

\* the expression `1 + (1 + ( ... ))` of n literals (parser/mod.rs:138-142 groups)
RECURSIVE RightNested(_)
RightNested(n) ==
    IF n = 1 THEN Const(1) ELSE Infix(Const(1), "Plus", RightNested(n - 1))

\* what compile_statements emits for <<Expression(RightNested(n))>>: the left
\* literal of every level first (OpConstant k), then one OpAdd per level on the
\* way back, then the OpPop of the statement
RightNestedCode(n) ==
    [instructions |->
        [i \in 1..(4 * n) |->
            IF i <= 3 * n
            THEN make_op(OpConstant((i - 1) \div 3))[((i - 1) % 3) + 1]
            ELSE IF i < 4 * n THEN make_op(OpAdd)[1] ELSE make_op(OpPop)[1]],
     constants |-> [i \in 1..n |-> Integer(1)]]

InitStack ==
    LET
        \* the closed form is the compiler's output
        RightNestedIsCompiled(n) ==
            compile_statements(Compiler_new, <<Expression(RightNested(n))>>).byte_code
                = RightNestedCode(n)
        \* the depths that fill the stack and overflow it by one
        Depths == {STACK_SIZE, STACK_SIZE + 1}
        DeepProgram(n) == <<Expression([expr |-> "RightNested", depth |-> n])>>
        \* the run starts at VM::new, or where VM::run has executed all the
        \* OpConstant of the code but the last three of the shallower program
        Starts == {0, STACK_SIZE - 2}
        \* the VM after VM::new and `first` executions of OpConstant
        AfterConstants(byte_code, first) ==
            [instructions |-> byte_code.instructions,
             constants |-> byte_code.constants,
             stack |-> [i \in 1..first |-> byte_code.constants[i]],
             sp |-> first]
    IN
        /\ \A n \in 1..SmallDepth : RightNestedIsCompiled(n)
        /\ \E n \in Depths, first \in Starts :
              /\ ast = DeepProgram(n)
              /\ compiler = [Compiler_new EXCEPT !.byte_code = RightNestedCode(n)]
              /\ phase = IF first = 0 THEN "compiled" ELSE "running"
              /\ vm = IF first = 0 THEN NoVM ELSE AfterConstants(RightNestedCode(n), first)
              /\ ip = 3 * first
              /\ trace = [i \in 1..first |-> 3 * (i - 1)]
        /\ overflow_checks \in BOOLEAN
        /\ panic = "none"
        /\ result = NoResult
        /\ codec = NoCall
        /\ symbols = NoTable
        /\ repl = NoRepl

NextStack ==
    \/ VMNew
    \/ ExecOpConstant
    \/ ExecOpAdd
    \/ ExecOpPop
    \/ RunReturns
    \/ LastPopped

SpecStack == InitStack /\ [][NextStack]_vars

-----------------------------------------------------------------------------
(* SpecRepl: the loop of main (src/main.rs:17-40).  repl holds main's env,  *)
(* the number of lines read (count), what the last readline returned        *)
(* (readline) and, for an Ok line, last: the parsed input, the evaluation   *)
(* eval_return_scope returned for it and the text display_object printed.   *)

MaxInputs == 2

\* fn display_object(obj: Object): the text of the println!
RECURSIVE display_object(_)
display_object(obj) ==
    CASE obj.tag = "Integer" -> ToString(obj.int)
      [] obj.tag = "String" -> obj.str
      [] obj.tag = "Boolean" -> IF obj.bool THEN "true" ELSE "false"
      [] obj.tag = "Function" -> "function"
      [] obj.tag = "Null" -> "null"
      [] obj.tag = "Return" -> display_object(obj.value)

ReplInputs ==
    LET
        EvalConditions ==
            {BooleanLit(TRUE), BooleanLit(FALSE), Infix(Const(1), "LessThan", Const(2)),
             Const(1), Ident("a")}
        EvalConsequences ==
            {<<>>,
             <<Let("x", Const(3)), Expression(Const(10))>>,
             <<Return(Const(1)), Expression(Const(2))>>}
        EvalAlternatives ==
            {<<>>,
             <<Let("y", Const(4)), Expression(Const(11))>>}
        \* `if (c) { A } else { B };`
        EvalIfPrograms ==
            {<<Expression(If(c, A, B))>> :
                c \in EvalConditions, A \in EvalConsequences, B \in EvalAlternatives}
        TenGreaterThanOne == Infix(Const(10), "GreaterThan", Const(1))
        \* the programs of tests::eval_return and tests::eval_function, and returns in
        \* the other places a conditional can stand
        EvalReturnPrograms ==
            {<<Return(Const(10))>>,
             <<Return(Const(10)), Expression(Const(11))>>,
             <<Expression(Const(9)), Return(Infix(Const(2), "Multiply", Const(5))),
               Expression(Const(9))>>,
             <<Expression(If(TenGreaterThanOne,
                             <<Expression(If(TenGreaterThanOne, <<Return(Const(10))>>, <<>>)),
                               Return(Const(1))>>,
                             <<>>))>>,
             <<Expression(If(BooleanLit(TRUE),
                             <<Expression(If(BooleanLit(FALSE), <<>>, <<Return(Const(10))>>)),
                               Let("x", Const(3))>>,
                             <<>>)),
               Let("y", Const(4))>>,
             <<Let("a", If(BooleanLit(TRUE), <<Return(Const(7))>>, <<>>)), Expression(Const(8))>>,
             <<Let("add", Function(<<"x", "y">>, <<Return(Infix(Ident("x"), "Plus", Ident("y")))>>)),
               Let("three", Call(Ident("add"), <<Const(1), Const(2)>>)),
               Expression(Const(5))>>,
             <<Let("f", Function(<<>>, <<Return(Const(1)), Expression(Const(2))>>)),
               Expression(Call(Ident("f"), <<>>)),
               Expression(Call(Ident("f"), <<>>)),
               Let("y", Const(4))>>,
             <<Let("g", Function(<<"c">>,
                                 <<Expression(If(Ident("c"), <<Return(Const(1))>>, <<>>)),
                                   Expression(Const(2))>>)),
               Let("x", Call(Ident("g"), <<BooleanLit(TRUE)>>)),
               Let("y", Call(Ident("g"), <<BooleanLit(FALSE)>>))>>,
             <<Return(Call(Function(<<>>, <<Return(Const(1)), Expression(Const(2))>>), <<>>)),
               Expression(Const(3))>>,
             <<Expression(Infix(Const(5), "Plus", If(BooleanLit(TRUE), <<Return(Const(2))>>, <<>>))),
               Expression(Const(3))>>,
             <<Expression(If(If(BooleanLit(TRUE), <<Return(BooleanLit(TRUE))>>, <<>>),
                             <<Expression(Const(10))>>, <<Expression(Const(11))>>)),
               Expression(Const(3))>>,
             <<Return(If(BooleanLit(TRUE), <<Return(Const(1))>>, <<>>)), Expression(Const(3))>>}
        \* lets, reads and calls of the names bound by earlier lines
        EvalBindingPrograms ==
            {<<Let("a", Const(n))>> : n \in {1, 2}}
            \cup {<<Expression(Ident(x))>> : x \in {"a", "b", "three"}}
            \cup {<<Let("b", Ident("a"))>>,
                  <<Let("a", Const(10)), Expression(Ident("a"))>>,
                  <<Let("a", BooleanLit(TRUE))>>,
                  <<Expression(Call(Ident("add"), <<Ident("a"), Const(2)>>))>>,
                  <<Expression(Call(Ident("add"), <<Const(1)>>))>>,
                  <<Expression(Call(Ident("a"), <<>>))>>,
                  <<Expression(Call(Const(1), <<>>))>>}
        LetATwo == If(BooleanLit(TRUE), <<Let("a", Const(2)), Expression(Ident("a"))>>, <<>>)
        \* `let a = 1;` and the functions f, g, h and k, then the calls of them
        EvalCallPrograms ==
            {<<Let("a", Const(1)),
               Let("f", Function(<<"x">>, <<Expression(Ident("x"))>>)),
               Let("g", Function(<<"x", "y">>,
                                 <<Expression(Infix(Ident("x"), "Minus", Ident("y")))>>)),
               Let("h", Function(<<"x">>, <<Expression(Ident("a"))>>)),
               Let("k", Function(<<"x">>,
                                 <<Let("a", Ident("x")), Let("b", Const(7)),
                                   Expression(Ident("a"))>>))>>}
            \cup {<<Expression(Call(Ident("f"), arguments))>> :
                      arguments \in {<<>>, <<Const(5)>>, <<Ident("a")>>, <<Const(1), Const(2)>>,
                                     <<LetATwo>>, <<Ident("b")>>}}
            \cup {<<Expression(Call(Ident("g"), arguments))>> :
                      arguments \in {<<Ident("a"), Const(2)>>, <<Const(2), Ident("a")>>,
                                     <<LetATwo, Ident("a")>>, <<Ident("a"), LetATwo>>,
                                     <<Call(Ident("k"), <<Const(5)>>), Ident("a")>>}}
            \cup {<<Expression(Call(Ident("h"), <<Const(1)>>))>>,
                  <<Expression(Call(Ident("k"), <<Const(5)>>))>>}
        EvalOtherPrograms ==
            {<<>>,
             <<Expression(Prefix("Minus", Infix(Const(1), "Minus", Const(2))))>>,
             <<Expression(Prefix("Bang", BooleanLit(TRUE)))>>,
             <<Expression(Prefix("Bang", Const(1)))>>,
             <<Expression(Prefix("Minus", BooleanLit(TRUE)))>>,
             <<Expression(Infix(StringLit("hello "), "Plus", StringLit("world")))>>,
             <<Expression(Infix(Const(1), "Divide", Const(0)))>>,
             <<Expression(Infix(Const(MaxI32), "Plus", Const(1)))>>,
             <<Expression(Prefix("Minus", Infix(Prefix("Minus", Const(MaxI32)), "Minus", Const(1))))>>,
             <<Expression(Infix(Infix(Const(1), "GreaterThan", Const(2)), "Equals", BooleanLit(FALSE)))>>,
             <<Expression(Infix(BooleanLit(TRUE), "NotEquals", BooleanLit(TRUE)))>>,
             <<Expression(Infix(BooleanLit(TRUE), "Equals", Const(1)))>>,
             <<Expression(Function(<<"x">>, <<Expression(Ident("x"))>>))>>}
    IN
        EvalIfPrograms \cup EvalReturnPrograms \cup EvalBindingPrograms
            \cup EvalCallPrograms \cup EvalOtherPrograms

InitRepl ==
    /\ repl = [env |-> Env_new, count |-> 0, readline |-> "none"]
    /\ overflow_checks \in BOOLEAN
    /\ phase = "prompt"
    /\ ast = <<>>
    /\ compiler = Compiler_new
    /\ vm = NoVM
    /\ ip = 0
    /\ panic = "none"
    /\ trace = <<>>
    /\ result = NoResult
    /\ codec = NoCall
    /\ symbols = NoTable

\* one iteration of the loop with readline returning Ok(line): lex, parse,
\* eval_return_scope(ast, &mut env), display_object
ReadLineOk ==
    LET
        \* what main holds after the arm Ok(line): r is the evaluation of the input
        Displayed(input, r) ==
            [env |-> r.env,
             count |-> repl.count + 1,
             readline |-> "Ok",
             last |-> IF r.panic # "none"
                      THEN [input |-> input, panic |-> r.panic, log |-> r.log]
                      ELSE [input |-> input, panic |-> "none", log |-> r.log, obj |-> r.obj,
                            displayed |-> display_object(r.obj)]]
    IN
        /\ phase = "prompt"
        /\ repl.count < MaxInputs
        /\ \E input \in ReplInputs :
              LET r == eval_return_scope(input, EvalStart(repl.env))
              IN  /\ repl' = Displayed(input, r)
                  /\ panic' = r.panic
                  /\ phase' = IF r.panic = "none" THEN "prompt" ELSE "panicked"
        /\ UNCHANGED <<ast, overflow_checks, compiler, vm, ip, trace, result, codec, symbols>>

\* Err(ReadlineError::Interrupted) => break: main returns
ReadLineInterrupted ==
    /\ phase = "prompt"
    /\ repl' = [repl EXCEPT !.readline = "Interrupted"]
    /\ phase' = "exited"
    /\ UNCHANGED <<ast, overflow_checks, compiler, vm, ip, panic, trace, result, codec,
                   symbols>>

\* Err(ReadlineError::Eof) => break
ReadLineEof ==
    /\ phase = "prompt"
    /\ repl' = [repl EXCEPT !.readline = "Eof"]
    /\ phase' = "exited"
    /\ UNCHANGED <<ast, overflow_checks, compiler, vm, ip, panic, trace, result, codec,
                   symbols>>

\* Err(err) => eprintln! and break
ReadLineErr ==
    /\ phase = "prompt"
    /\ repl' = [repl EXCEPT !.readline = "Err"]
    /\ phase' = "exited"
    /\ UNCHANGED <<ast, overflow_checks, compiler, vm, ip, panic, trace, result, codec,
                   symbols>>

NextRepl ==
    \/ ReadLineOk
    \/ ReadLineInterrupted
    \/ ReadLineEof
    \/ ReadLineErr

SpecRepl == InitRepl /\ [][NextRepl]_vars

-----------------------------------------------------------------------------
(* SpecLong: compile_statements on programs long enough for the 16-bit      *)
(* operands.  The behaviour starts where the loop of compile_statements has *)
(* compiled statements `1;` (none, or as many as bring the stream or the    *)
(* pool next to 65536); each step is one more iteration of the loop, and    *)
(* ast holds the statements compiled since the start.                       *)

SmallLong == 3
MaxLong == 3

\* the compiler after n statements `1;`: Constant(k), Pop for k = 0 .. n - 1, n <= 65536
LongPrefix(n) ==
    [byte_code |->
        [instructions |->
            [i \in 1..(4 * n) |->
                CASE (i - 1) % 4 = 0 -> 1
                  [] (i - 1) % 4 = 1 -> ((i - 1) \div 4) \div 256
                  [] (i - 1) % 4 = 2 -> ((i - 1) \div 4) % 256
                  [] (i - 1) % 4 = 3 -> 2],
         constants |-> [i \in 1..n |-> Integer(1)]],
     symbol_table |-> SymbolTable_new,
     panic |-> "none",
     ret |-> IF n = 0 THEN 0 ELSE AsU16(4 * n - 1)]

InitLong ==
    LET Ones(n) == [i \in 1..n |-> Expression(Const(1))]
        \* 16383 statements: 65532 bytes; 65535 statements: 65535 constants
        Firsts == {0, 16383, 65535}
    IN  /\ \A n \in 0..SmallLong : LongPrefix(n) = compile_statements(Compiler_new, Ones(n))
        /\ \E first \in Firsts : compiler = LongPrefix(first)
        /\ ast = <<>>
        /\ overflow_checks \in BOOLEAN
        /\ phase = "compiling"
        /\ vm = NoVM
        /\ ip = 0
        /\ panic = "none"
        /\ trace = <<>>
        /\ result = NoResult
        /\ codec = NoCall
        /\ symbols = NoTable
        /\ repl = NoRepl

\* one iteration of `for statement in ast` (compiler/mod.rs:158-173)
CompileStatement ==
    /\ phase = "compiling"
    /\ Len(ast) < MaxLong
    /\ \E statement \in {Expression(Const(1)),
                         Expression(If(BooleanLit(TRUE), <<Expression(Const(10))>>, <<>>)),
                         Expression(If(BooleanLit(TRUE), <<Expression(Const(10))>>,
                                       <<Expression(Const(20))>>))} :
          /\ ast' = Append(ast, statement)
          /\ compiler' = compile_statement(compiler, statement)
    /\ panic' = compiler'.panic
    /\ phase' = IF Panicked(compiler') THEN "panicked" ELSE "compiling"
    /\ UNCHANGED <<overflow_checks, vm, ip, trace, result, codec, symbols, repl>>

\* the loop is over: compile_from_source returns compiler.byte_code
CompileReturns ==
    /\ phase = "compiling"
    /\ phase' = "compiled"
    /\ UNCHANGED <<ast, overflow_checks, compiler, vm, ip, panic, trace, result, codec,
                   symbols, repl>>

NextLong == CompileStatement \/ CompileReturns

SpecLong == InitLong /\ [][NextLong]_vars

-----------------------------------------------------------------------------
(* Vocabulary of the properties *)

\* the program is the single statement `e;`
SingleExpression == Len(ast) = 1 /\ ast[1].stmt = "Expression"

\* the program is `a op b;` for integer literals a and b
LiteralInfix ==
    /\ SingleExpression
    /\ ast[1].value.expr = "Infix"
    /\ ast[1].value.left.expr = "Const"
    /\ ast[1].value.right.expr = "Const"

Arithmetic == {"Plus", "Minus", "Multiply", "Divide"}

\* a op b is an i32
Representable(a, op, b) ==
    CASE op = "Plus"     -> ~AddOverflows(a, b)
      [] op = "Minus"    -> ~SubOverflows(a, b)
      [] op = "Multiply" -> ~MulOverflows(a, b)
      [] op = "Divide"   -> b # 0

\* a op b over the integers, / rounding toward zero (a and b are not negative)
Exact(a, op, b) ==
    CASE op = "Plus"     -> a + b
      [] op = "Minus"    -> a - b
      [] op = "Multiply" -> a * b
      [] op = "Divide"   -> a \div b

\* no step of the compilation or of the run has panicked
RunsNormally == phase # "panicked"

\* the caller has read last_popped and it is the object o
Leaves(o) == phase = "done" /\ result.value = o

\* the tags of the opcode table
Tag ==
    [n \in PlainOps \cup OperandOps \cup {"OpGetGlobal"} |->
        CASE n = "OpConstant" -> 1 [] n = "OpPop" -> 2 [] n = "OpAdd" -> 3
          [] n = "OpSub" -> 4 [] n = "OpMul" -> 5 [] n = "OpDiv" -> 6
          [] n = "OpTrue" -> 7 [] n = "OpFalse" -> 8 [] n = "OpEquals" -> 9
          [] n = "OpNotEquals" -> 10 [] n = "OpGreaterThan" -> 11 [] n = "OpMinus" -> 12
          [] n = "OpBang" -> 13 [] n = "OpJumpNotTrue" -> 14 [] n = "OpJump" -> 15
          [] n = "OpSetGlobal" -> 16 [] n = "OpGetGlobal" -> 17]

\* [tag, operand >> 8, operand & 0xFF], or [tag] for an opcode without operand
TableEncoding(o) ==
    IF "arg" \in DOMAIN o
    THEN <<Tag[o.op], o.arg \div 256, o.arg % 256>>
    ELSE <<Tag[o.op]>>

-----------------------------------------------------------------------------
(* C1 *)

\* C1, as stated: for all integer literals a, b (b # 0 for /) and op in + - * /,
\* compiling and running `a op b;` terminates normally and leaves Integer(a op b).
\* Integer holds an i32, so this asks a op b to be an i32.
C1_EveryLiteralPair ==
    (LiteralInfix /\ ast[1].value.operator \in Arithmetic
       /\ ~(ast[1].value.operator = "Divide" /\ ast[1].value.right.num = 0))
    => /\ RunsNormally
       /\ phase = "done" =>
            /\ Representable(ast[1].value.left.num, ast[1].value.operator,
                             ast[1].value.right.num)
            /\ result.value = Integer(Exact(ast[1].value.left.num, ast[1].value.operator,
                                            ast[1].value.right.num))

\* C1, amended: for all integer literals a, b and op in + - * / such that a op b is
\* an i32 (b # 0 for /), compiling and running `a op b;` terminates normally and
\* leaves Integer(a op b) as last popped, a being the left operand.
C1_RepresentableResult ==
    (LiteralInfix /\ ast[1].value.operator \in Arithmetic
       /\ Representable(ast[1].value.left.num, ast[1].value.operator,
                        ast[1].value.right.num))
    => /\ RunsNormally
       /\ phase = "done" =>
            result.value = Integer(Exact(ast[1].value.left.num, ast[1].value.operator,
                                         ast[1].value.right.num))

\* `1 - 2;` has run and left Integer(-1)
C1_Witness ==
    /\ ast = <<Expression(Infix(Const(1), "Minus", Const(2)))>>
    /\ Leaves(Integer(-1))

-----------------------------------------------------------------------------
(* C2 *)

\* C2: for every u16 v, decoding the two big-endian bytes of v returns v; for every
\* byte pair (b0, b1), encoding the decoded value returns (b0, b1).
C2_RoundTrip ==
    codec.hops = 2 =>
        /\ codec.fn \in {"convert_two_u8s_be_to_usize", "convert_u16_to_two_u8s_be"}
        /\ codec.val = codec.origin

\* 65535 has been encoded and decoded
C2_Witness ==
    /\ codec.hops = 2
    /\ codec.fn = "convert_two_u8s_be_to_usize"
    /\ codec.origin = U16Max
    /\ codec.val = U16Max

-----------------------------------------------------------------------------
(* C3 *)

\* C3: make_op returns the tag of the opcode table alone for an opcode without
\* operand, and [tag, operand >> 8, operand & 0xFF] for Constant, JumpIfNotTrue,
\* Jump, SetGlobal and GetGlobal, for every operand in 0..=65535.
C3_MakeOpEncoding ==
    codec.fn = "make_op" =>
        /\ codec.val = TableEncoding(codec.origin)
        /\ Len(codec.val) = IF codec.origin.op \in PlainOps THEN 1 ELSE 3

\* make_op(OpConstant(65534)) has returned [0x01, 255, 254]
C3_Witness ==
    /\ codec.fn = "make_op"
    /\ codec.origin = OpConstant(65534)
    /\ codec.val = <<1, 255, 254>>

-----------------------------------------------------------------------------
(* Conditionals: the statement `if (c) { A } else { B };` of the program,   *)
(* what precedes it, and the code its parts compile to where they stand     *)

\* the statements before the conditional are let statements of literals
IsIfStatement(i) ==
    /\ ast[i].stmt = "Expression"
    /\ ast[i].value.expr = "If"
    /\ \A j \in 1..(i - 1) : ast[j].stmt = "Let" /\ ast[j].value.expr = "Const"

HasIf == \E i \in 1..Len(ast) : IsIfStatement(i)
IfIndex == CHOOSE i \in 1..Len(ast) : IsIfStatement(i)
TheIf == ast[IfIndex].value

\* the bytes of code that follow its first n bytes
After(code, n) == SubSeq(code, n + 1, Len(code))

\* the compiler when it reaches the conditional, and after its condition
BeforeIf == compile_statements(Compiler_new, SubSeq(ast, 1, IfIndex - 1))
AfterCondition == compile_expression(BeforeIf, TheIf.condition)
IfJumpPosition == Len(AfterCondition.byte_code.instructions)

\* a block's code with the Pop of its last expression statement removed; a block
\* that is empty or ends in a let has no trailing Pop
WithoutTrailingPop(code, block) ==
    IF block # <<>> /\ block[Len(block)].stmt = "Expression"
    THEN SubSeq(code, 1, Len(code) - 1)
    ELSE code

\* the code of the consequence, compiled where it stands (after the 3-byte jump)
ConsequenceStart == add_instruction(AfterCondition, OpJumpNotTrue(0))
AfterConsequence == compile_statements(ConsequenceStart, TheIf.consequence)
ConsequenceCode ==
    WithoutTrailingPop(After(AfterConsequence.byte_code.instructions, IfJumpPosition + 3),
                       TheIf.consequence)
ConsequenceEnd == IfJumpPosition + 3 + Len(ConsequenceCode)

\* the code of the alternative, compiled where it stands (after the 3-byte Jump)
AlternativeStart ==
    [AfterConsequence EXCEPT !.byte_code.instructions =
        AfterCondition.byte_code.instructions \o <<14, 0, 0>> \o ConsequenceCode \o <<15, 0, 0>>]
AlternativeCode ==
    WithoutTrailingPop(
        After(compile_statements(AlternativeStart, TheIf.alternative).byte_code.instructions,
              ConsequenceEnd + 3),
        TheIf.alternative)
AlternativeEnd == ConsequenceEnd + 3 + Len(AlternativeCode)

Emitted == compiler.byte_code.instructions
Compiled == phase # "source" /\ compiler.panic = "none"

-----------------------------------------------------------------------------
(* C4 *)

\* C4: `if (c) { S }` compiles to the code of c, JumpIfNotTrue(t), then the code of
\* S with its trailing Pop removed, t being the offset of the end of the stream
\* right after the consequence, where the first byte that follows the conditional
\* stands; `if (true) { 10; }; 3333;` gives True, JumpIfNotTrue(7), Constant(0), Pop,
\* Constant(1), Pop with constants [10, 3333].
C4_IfWithoutElse ==
    /\ (Compiled /\ HasIf /\ TheIf.alternative = <<>>) =>
          /\ Len(Emitted) > ConsequenceEnd
          /\ SubSeq(Emitted, 1, ConsequenceEnd) =
                AfterCondition.byte_code.instructions
                \o TableEncoding(OpJumpNotTrue(ConsequenceEnd))
                \o ConsequenceCode
          /\ Emitted[ConsequenceEnd + 1] = Tag["OpPop"]
    /\ (Compiled /\ ast = <<Expression(If(BooleanLit(TRUE), <<Expression(Const(10))>>, <<>>)),
                            Expression(Const(3333))>>) =>
          /\ Emitted = <<7, 14, 0, 7, 1, 0, 0, 2, 1, 0, 1, 2>>
          /\ compiler.byte_code.constants = <<Integer(10), Integer(3333)>>

-----------------------------------------------------------------------------
(* C5 *)

\* C5: `if (c) { A } else { B }` compiles to code(c), JumpIfNotTrue(t1), code(A)
\* without its trailing Pop, Jump(t2), code(B) without its trailing Pop, t1 being
\* the offset right after the Jump (the first instruction of B) and t2 the offset
\* right after the code of B; `if (true) { 10; } else { 20; };` gives True,
\* JumpIfNotTrue(10), Constant(0), Jump(13), Constant(1), Pop.
C5_IfWithElse ==
    /\ (Compiled /\ HasIf /\ TheIf.alternative # <<>>) =>
          /\ Len(Emitted) > AlternativeEnd
          /\ SubSeq(Emitted, 1, AlternativeEnd) =
                AfterCondition.byte_code.instructions
                \o TableEncoding(OpJumpNotTrue(ConsequenceEnd + 3))
                \o ConsequenceCode
                \o TableEncoding(OpJump(AlternativeEnd))
                \o AlternativeCode
          /\ Emitted[AlternativeEnd + 1] = Tag["OpPop"]
    /\ (Compiled /\ ast = <<Expression(If(BooleanLit(TRUE), <<Expression(Const(10))>>,
                                          <<Expression(Const(20))>>))>>) =>
          Emitted = <<7, 14, 0, 10, 1, 0, 0, 15, 0, 13, 1, 0, 1, 2>>

-----------------------------------------------------------------------------
(* C6 *)

\* the program is `if (true) { ...; v; }; w;` for integer literals v and w
TakenIfThenStatement ==
    /\ Len(ast) = 2
    /\ IsIfStatement(1)
    /\ TheIf.condition = BooleanLit(TRUE)
    /\ TheIf.alternative = <<>>
    /\ TheIf.consequence # <<>>
    /\ TheIf.consequence[Len(TheIf.consequence)].stmt = "Expression"
    /\ TheIf.consequence[Len(TheIf.consequence)].value.expr = "Const"
    /\ ast[2].stmt = "Expression"
    /\ ast[2].value.expr = "Const"

\* C6: running the code of a taken conditional followed by another statement, such
\* as `if (true) { 10; }; 3333;`, terminates normally; the Pop that ends the
\* conditional's statement discards the value of the last expression statement of
\* the consequence, and the value left as last popped is the one of the statement
\* that follows.
C6_TakenIfValue ==
    TakenIfThenStatement =>
        /\ RunsNormally
        /\ (phase = "running" /\ ip = ConsequenceEnd + 1) =>
              /\ vm.sp < Len(vm.stack)
              /\ vm.stack[vm.sp + 1] =
                    Integer(TheIf.consequence[Len(TheIf.consequence)].value.num)
        /\ phase = "done" => result.value = Integer(ast[2].value.num)

-----------------------------------------------------------------------------
(* C7 *)

\* the program starts with `if (b) { A } else { B };` for a boolean literal b
IfElseOfLiteral ==
    /\ Len(ast) >= 1
    /\ IsIfStatement(1)
    /\ TheIf.condition.expr = "Boolean"
    /\ TheIf.alternative # <<>>

\* the addresses of the instructions of A, of the Jump that ends A, and of B
ConsequenceAddresses == (IfJumpPosition + 3)..(ConsequenceEnd - 1)
AlternativeAddresses == (ConsequenceEnd + 3)..(AlternativeEnd - 1)
Executes(addresses) == \E k \in 1..Len(trace) : trace[k] \in addresses

\* C7: the VM executes exactly one branch of `if (c) { A } else { B }`: when c is
\* true no instruction of B is executed and control passes from the end of A to the
\* first instruction after B; when c is not true no instruction of A is executed.
\* Running `if (true) { 10; } else { 20; }; 3333;` leaves Integer(3333).
C7_OneBranchRuns ==
    /\ IfElseOfLiteral =>
          /\ RunsNormally
          /\ TheIf.condition.val => ~Executes(AlternativeAddresses)
          /\ (TheIf.condition.val /\ Executes({ConsequenceEnd})) =>
                (Executes({AlternativeEnd}) \/ (phase = "running" /\ ip = AlternativeEnd))
          /\ ~TheIf.condition.val => ~Executes(ConsequenceAddresses)
          /\ phase = "done" => (Executes(ConsequenceAddresses \cup AlternativeAddresses)
                                \/ TheIf.consequence = <<>>)
    /\ ast = <<Expression(If(BooleanLit(TRUE), <<Expression(Const(10))>>,
                             <<Expression(Const(20))>>)),
               Expression(Const(3333))>> =>
          /\ RunsNormally
          /\ phase = "done" => result.value = Integer(3333)

-----------------------------------------------------------------------------
(* C8 *)

\* an expression built from integer literals and infix operators only
RECURSIVE InfixTree(_)
InfixTree(e) ==
    \/ e.expr = "Const"
    \/ e.expr = "Infix" /\ InfixTree(e.left) /\ InfixTree(e.right)

\* the opcode of each infix operator other than less-than
OperatorOpcode ==
    [o \in Operator \ {"LessThan"} |->
        CASE o = "Plus" -> "OpAdd" [] o = "Minus" -> "OpSub" [] o = "Multiply" -> "OpMul"
          [] o = "Divide" -> "OpDiv" [] o = "Equals" -> "OpEquals"
          [] o = "NotEquals" -> "OpNotEquals" [] o = "GreaterThan" -> "OpGreaterThan"]

\* the literals and opcodes of e in the order C8 gives: R, L, GreaterThan for
\* L < R; L, R, the operator's opcode otherwise
RECURSIVE EmissionOrder(_)
EmissionOrder(e) ==
    IF e.expr = "Const" THEN <<[literal |-> e.num]>>
    ELSE IF e.operator = "LessThan"
    THEN EmissionOrder(e.right) \o EmissionOrder(e.left) \o <<[opcode |-> "OpGreaterThan"]>>
    ELSE EmissionOrder(e.left) \o EmissionOrder(e.right)
         \o <<[opcode |-> OperatorOpcode[e.operator]]>>

\* the bytes of an emission order, its literals being the constants k, k + 1, ...
RECURSIVE BytesOf(_, _)
BytesOf(order, k) ==
    IF order = <<>> THEN <<>>
    ELSE IF "literal" \in DOMAIN Head(order)
    THEN TableEncoding(OpConstant(k)) \o BytesOf(Tail(order), k + 1)
    ELSE <<Tag[Head(order).opcode]>> \o BytesOf(Tail(order), k)

\* the constants of an emission order
RECURSIVE PoolOf(_)
PoolOf(order) ==
    IF order = <<>> THEN <<>>
    ELSE IF "literal" \in DOMAIN Head(order)
    THEN <<Integer(Head(order).literal)>> \o PoolOf(Tail(order))
    ELSE PoolOf(Tail(order))

\* C8: `L < R` compiles to the code of R, the code of L, then the single opcode
\* GreaterThan (0x0B); every other infix operator compiles to the code of L, the
\* code of R, then its own opcode.
C8_LessThanFlipsOperands ==
    (phase # "source" /\ SingleExpression /\ InfixTree(ast[1].value)) =>
        /\ compiler.panic = "none"
        /\ Emitted = BytesOf(EmissionOrder(ast[1].value), 0) \o <<Tag["OpPop"]>>
        /\ compiler.byte_code.constants = PoolOf(EmissionOrder(ast[1].value))

\* `1 < 2;` has been compiled to Constant(0) = 2, Constant(1) = 1, GreaterThan, Pop
C8_Witness ==
    /\ phase = "compiled"
    /\ ast = <<Expression(Infix(Const(1), "LessThan", Const(2)))>>
    /\ Emitted = <<1, 0, 0, 1, 0, 1, 11, 2>>
    /\ compiler.byte_code.constants = <<Integer(2), Integer(1)>>

-----------------------------------------------------------------------------
(* C9 *)

\* C9: for all integer literals a and b, `a < b;` and `b > a;` both run normally and
\* leave the same Boolean, the truth value of a < b.
C9_LessThanAndGreaterThanAgree ==
    /\ (LiteralInfix /\ ast[1].value.operator = "LessThan") =>
          /\ RunsNormally
          /\ phase = "done" =>
                result.value = Boolean(ast[1].value.left.num < ast[1].value.right.num)
    /\ (LiteralInfix /\ ast[1].value.operator = "GreaterThan") =>
          /\ RunsNormally
          /\ phase = "done" =>
                result.value = Boolean(ast[1].value.right.num < ast[1].value.left.num)

-----------------------------------------------------------------------------
(* C10 *)

\* the program is `let x = e; x;` for a literal e
LetThenRead ==
    /\ Len(ast) = 2
    /\ ast[1].stmt = "Let"
    /\ ast[1].value.expr \in {"Const", "Boolean"}
    /\ ast[2] = Expression(Ident(ast[1].name))

\* the value of a literal
LiteralValue(e) == IF e.expr = "Const" THEN Integer(e.num) ELSE Boolean(e.val)

\* C10: compiling and running `let x = e; x;` terminates normally and leaves the
\* value of e as last popped (`let one = 1; one;` leaves Integer(1)).
C10_LetThenReadLeavesValue ==
    LetThenRead =>
        /\ RunsNormally
        /\ phase = "done" => result.value = LiteralValue(ast[1].value)

-----------------------------------------------------------------------------
(* C11 *)

\* the number of let statements in a block, those of the branches of its
\* conditional statements included
RECURSIVE LetsIn(_), LetsOf(_)
LetsIn(block) == IF block = <<>> THEN 0 ELSE LetsOf(Head(block)) + LetsIn(Tail(block))
LetsOf(statement) ==
    IF statement.stmt = "Let" THEN 1
    ELSE IF statement.stmt = "Expression" /\ statement.value.expr = "If"
    THEN LetsIn(statement.value.consequence) + LetsIn(statement.value.alternative)
    ELSE 0

\* the compiler when it reaches the i-th top-level statement, and after the value
\* of that statement
BeforeStatement(i) == compile_statements(Compiler_new, SubSeq(ast, 1, i - 1))
AfterValue(i) == compile_expression(BeforeStatement(i), ast[i].value)

\* the stream up to the end of the i-th statement, a let that is the n-th compiled
LetCode(i, n) == AfterValue(i).byte_code.instructions \o TableEncoding(OpSetGlobal(n))

\* the stream holds the code of the value of statement i followed by SetGlobal(n)
LetEmitted(i, n) ==
    /\ Len(Emitted) >= Len(LetCode(i, n))
    /\ SubSeq(Emitted, 1, Len(LetCode(i, n))) = LetCode(i, n)

\* the consequence of the conditional ends in a let statement
ConsequenceEndsInLet ==
    /\ HasIf
    /\ TheIf.consequence # <<>>
    /\ TheIf.consequence[Len(TheIf.consequence)].stmt = "Let"

\* C11: within one compilation the n-th let statement compiled (from 0, in source
\* order) is emitted as the code of its value followed by SetGlobal(n), also when
\* it stands in a branch of a conditional; `let one = 1; let two = 2;` gives
\* Constant(0), SetGlobal(0), Constant(1), SetGlobal(1).
C11_NthLetSetsSlotN ==
    /\ Compiled =>
          \A i \in 1..Len(ast) :
              ast[i].stmt = "Let" => LetEmitted(i, LetsIn(SubSeq(ast, 1, i - 1)))
    /\ (Compiled /\ ConsequenceEndsInLet) =>
          After(AfterConsequence.byte_code.instructions,
                Len(AfterConsequence.byte_code.instructions) - 3) =
             TableEncoding(OpSetGlobal(LetsIn(SubSeq(ast, 1, IfIndex - 1))
                                       + LetsIn(TheIf.consequence) - 1))
    /\ (Compiled /\ ast = <<Let("one", Const(1)), Let("two", Const(2))>>) =>
          Emitted = <<1, 0, 0, 16, 0, 0, 1, 0, 1, 16, 0, 1>>

\* `let one = 1; if (true) { let x = 3; } else { let y = 4; }; let two = 1 + 2; two;`
\* has been compiled: its fourth let is SetGlobal(3)
C11_Witness ==
    /\ phase = "compiled"
    /\ Len(ast) = 4
    /\ ast[3] = Let("two", Infix(Const(1), "Plus", Const(2)))
    /\ LetsIn(SubSeq(ast, 1, 2)) = 3
    /\ LetEmitted(3, 3)

-----------------------------------------------------------------------------
(* C12 *)

\* the state is one of SpecTable
InTable == "first" \in DOMAIN symbols

\* C12: for any sequence of define calls on one table the k-th call (from 0) returns
\* slot k, no two calls return the same slot, the allocation counter never
\* decreases (it is the number of calls made), and a define of a bound name
\* allocates a new slot and rebinds the name to it.
C12_DefineNeverReusesSlot ==
    InTable =>
        /\ panic = "none"
        /\ \A i \in 1..Len(symbols.returned) :
              /\ symbols.returned[i] = symbols.first + i - 1
              /\ symbols.returned[i] >= symbols.first
              /\ \A j \in 1..Len(symbols.returned) :
                    i # j => symbols.returned[i] # symbols.returned[j]
        /\ symbols.symbol_table.next_index = symbols.first + Len(symbols.returned)
        /\ symbols.last.fn = "define" =>
              /\ symbols.last.index = symbols.first + Len(symbols.returned) - 1
              /\ symbols.symbol_table.store[symbols.last.name] = symbols.last.index

-----------------------------------------------------------------------------
(* C13 *)

\* what the last call, a resolve, returned is the slot the most recent define of
\* that name returned, and None when the name was never defined
ResolvedLatest ==
    (InTable /\ symbols.last.fn = "resolve") =>
        IF symbols.last.name \in DOMAIN symbols.latest
        THEN symbols.last.found = [some |-> TRUE, index |-> symbols.latest[symbols.last.name]]
        ELSE ~symbols.last.found.some

\* a step that ends in the return of a resolve leaves the bindings and the counter
ResolveKeepsTable ==
    (InTable /\ symbols'.last.fn = "resolve") =>
        symbols'.symbol_table = symbols.symbol_table

\* C13: after any sequence of define calls resolve(name) returns the slot returned
\* by the most recent define(name), signals `not defined` when define(name) was
\* never called, and changes neither the bindings nor the allocation counter.
C13_ResolveReturnsLatestDefine ==
    [][ResolvedLatest' /\ ResolveKeepsTable]_vars

\* define("a") returned 0, then 1, and resolve("a") has returned Some(1)
C13_Witness ==
    /\ InTable
    /\ symbols.returned = <<0, 1>>
    /\ DOMAIN symbols.latest = {"a"}
    /\ symbols.last = [fn |-> "resolve", name |-> "a",
                       found |-> [some |-> TRUE, index |-> 1]]

-----------------------------------------------------------------------------
(* C14 *)

\* the number of let statements of the name in a block, the branches of its
\* conditional statements included
RECURSIVE LetsNamedIn(_, _), LetsNamedOf(_, _)
LetsNamedIn(block, name) ==
    IF block = <<>> THEN 0
    ELSE LetsNamedOf(Head(block), name) + LetsNamedIn(Tail(block), name)
LetsNamedOf(statement, name) ==
    IF statement.stmt = "Let" THEN (IF statement.name = name THEN 1 ELSE 0)
    ELSE IF statement.stmt = "Expression" /\ statement.value.expr = "If"
    THEN LetsNamedIn(statement.value.consequence, name)
         + LetsNamedIn(statement.value.alternative, name)
    ELSE 0

\* the top-level let statements of the name that precede statement i
PrecedingLets(name, i) == {j \in 1..(i - 1) : ast[j].stmt = "Let" /\ ast[j].name = name}

\* the name is bound before statement i, by top-level let statements only
BoundAtTopLevel(name, i) ==
    /\ PrecedingLets(name, i) # {}
    /\ Cardinality(PrecedingLets(name, i)) = LetsNamedIn(SubSeq(ast, 1, i - 1), name)

\* the slot of the latest let of the name that precedes statement i: the number of
\* let statements compiled before that let
LatestLet(name, i) == CHOOSE j \in PrecedingLets(name, i) : \A k \in PrecedingLets(name, i) : k <= j
SlotOfLatestLet(name, i) == LetsIn(SubSeq(ast, 1, LatestLet(name, i) - 1))

\* statement i is `name;` or `let x = name;` for a name bound at top level
IsReference(i) ==
    /\ ast[i].stmt \in {"Expression", "Let"}
    /\ ast[i].value.expr = "Ident"
    /\ BoundAtTopLevel(ast[i].value.name, i)

\* the bytes GetGlobal(slot of the name referred to by statement i)
ReferenceCode(i) == TableEncoding(OpGetGlobal(SlotOfLatestLet(ast[i].value.name, i)))

\* C14: a reference to an identifier that has a preceding let in the compilation
\* compiles to exactly one GetGlobal (0x11 and the big-endian slot) whose operand is
\* the slot of the latest preceding let of that name; nothing else is emitted and
\* no constant is added.
C14_ReferenceEmitsOneGetGlobal ==
    Compiled =>
        \A i \in 1..Len(ast) :
            IsReference(i) =>
                /\ AfterValue(i).byte_code.instructions =
                      BeforeStatement(i).byte_code.instructions \o ReferenceCode(i)
                /\ AfterValue(i).byte_code.constants = BeforeStatement(i).byte_code.constants
                /\ Len(Emitted) >= Len(AfterValue(i).byte_code.instructions)
                /\ SubSeq(Emitted, 1, Len(AfterValue(i).byte_code.instructions)) =
                      BeforeStatement(i).byte_code.instructions \o ReferenceCode(i)
                /\ ReferenceCode(i)[1] = 17

\* `let one = 1; let one = 2; one;` has been compiled: the reference is GetGlobal(1)
C14_Witness ==
    /\ phase = "compiled"
    /\ ast = <<Let("one", Const(1)), Let("one", Const(2)), Expression(Ident("one"))>>
    /\ IsReference(3)
    /\ Emitted = <<1, 0, 0, 16, 0, 0, 1, 0, 1, 16, 0, 1, 17, 0, 1, 2>>
    /\ compiler.byte_code.constants = <<Integer(1), Integer(2)>>

-----------------------------------------------------------------------------
(* C15 *)

\* an expression made of literals, identifiers, prefix and infix operators
RECURSIVE Simple(_)
Simple(e) ==
    \/ e.expr \in {"Const", "Boolean", "Ident"}
    \/ e.expr = "Prefix" /\ Simple(e.value)
    \/ e.expr = "Infix" /\ Simple(e.left) /\ Simple(e.right)

\* the names such an expression refers to
RECURSIVE IdentsOf(_)
IdentsOf(e) ==
    CASE e.expr = "Ident"  -> {e.name}
      [] e.expr = "Prefix" -> IdentsOf(e.value)
      [] e.expr = "Infix"  -> IdentsOf(e.left) \cup IdentsOf(e.right)
      [] OTHER             -> {}

\* statement i refers to a name that no statement before it defines, and is the
\* first statement that does not compile
FirstUndefinedReference(i) ==
    /\ ast[i].stmt \in {"Expression", "Let"}
    /\ Simple(ast[i].value)
    /\ \E name \in IdentsOf(ast[i].value) : LetsNamedIn(SubSeq(ast, 1, i - 1), name) = 0
    /\ ~Panicked(BeforeStatement(i))

\* C15: compiling a reference to an identifier with no preceding definition fails
\* with the undefined-variable error and returns no artifact; at the failure the
\* instruction stream and the constant pool hold only what the statements before the
\* failing one emitted.
C15_UndefinedLeavesNoPartialCode ==
    \A i \in 1..Len(ast) :
        (phase # "source" /\ FirstUndefinedReference(i)) =>
            /\ phase = "panicked"
            /\ panic = "attempted to use undefined variable"
            /\ compiler.byte_code = BeforeStatement(i).byte_code

-----------------------------------------------------------------------------
(* C16 *)

\* the expression, or the block, holds a function literal or a call
RECURSIVE Unsupported(_), UnsupportedIn(_)
Unsupported(e) ==
    \/ e.expr \in {"Function", "Call"}
    \/ e.expr = "Prefix" /\ Unsupported(e.value)
    \/ e.expr = "Infix" /\ (Unsupported(e.left) \/ Unsupported(e.right))
    \/ e.expr = "If" /\ (\/ Unsupported(e.condition)
                         \/ UnsupportedIn(e.consequence)
                         \/ UnsupportedIn(e.alternative))
UnsupportedIn(block) == \E k \in 1..Len(block) : Unsupported(block[k].value)

\* C16: compiling a program that holds a function literal or a call anywhere (in a
\* branch of a conditional, in the value of a let) ends in a fatal failure; no
\* byte code is ever returned for it.
C16_UnsupportedNodeIsFatal ==
    (phase # "source" /\ UnsupportedIn(ast)) =>
        /\ phase = "panicked"
        /\ Panicked(compiler)
        /\ vm = NoVM

\* `5; if (false) { f(1); };` has ended in the panic of the fallback arm
C16_Witness ==
    /\ ast = <<Expression(Const(5)),
               Expression(If(BooleanLit(FALSE),
                             <<Expression(Call(Ident("f"), <<Const(1)>>))>>, <<>>))>>
    /\ phase = "panicked"
    /\ compiler.panic = "unsupported expression"

-----------------------------------------------------------------------------
(* C17 *)

\* the integer literals of an expression, or of a block, in the order they are
\* compiled: the right operand of `<` before the left one
RECURSIVE LiteralsOf(_), LiteralsIn(_)
LiteralsOf(e) ==
    CASE e.expr = "Const"  -> <<e.num>>
      [] e.expr = "Prefix" -> LiteralsOf(e.value)
      [] e.expr = "Infix"  ->
            IF e.operator = "LessThan" THEN LiteralsOf(e.right) \o LiteralsOf(e.left)
            ELSE LiteralsOf(e.left) \o LiteralsOf(e.right)
      [] e.expr = "If"     ->
            LiteralsOf(e.condition) \o LiteralsIn(e.consequence) \o LiteralsIn(e.alternative)
      [] OTHER             -> <<>>
LiteralsIn(block) ==
    IF block = <<>> THEN <<>> ELSE LiteralsOf(Head(block).value) \o LiteralsIn(Tail(block))

\* the program has no conditional: its statements are lets and expression
\* statements of simple expressions
Straight == \A i \in 1..Len(ast) : ast[i].stmt \in {"Let", "Expression"} /\ Simple(ast[i].value)

\* the operands of the Constant instructions of a stream, in order
RECURSIVE ConstantOperands(_)
ConstantOperands(code) ==
    IF code = <<>> THEN <<>>
    ELSE IF code[1] = Tag["OpConstant"]
    THEN <<code[2] * 256 + code[3]>> \o ConstantOperands(After(code, 3))
    ELSE IF code[1] \in {Tag[n] : n \in OperandOps \cup {"OpGetGlobal"}}
    THEN ConstantOperands(After(code, 3))
    ELSE ConstantOperands(After(code, 1))

\* C17: every occurrence of an integer literal appends one entry to the constant
\* pool, equal literals included, and emits Constant(i), i being the position of
\* that entry; the pool keeps the order of emission, so the j-th literal compiled is
\* constants[j].  A boolean literal adds no entry and emits the single byte True or
\* False.
C17_PoolHoldsLiteralsInOrder ==
    /\ Compiled =>
          /\ Len(compiler.byte_code.constants) = Len(LiteralsIn(ast))
          /\ \A j \in 1..Len(LiteralsIn(ast)) :
                compiler.byte_code.constants[j] = Integer(LiteralsIn(ast)[j])
    /\ (Compiled /\ Straight) =>
          /\ Len(ConstantOperands(Emitted)) = Len(LiteralsIn(ast))
          /\ \A j \in 1..Len(LiteralsIn(ast)) : ConstantOperands(Emitted)[j] = j - 1
    /\ (Compiled /\ SingleExpression /\ ast[1].value.expr = "Boolean") =>
          /\ compiler.byte_code.constants = <<>>
          /\ Emitted = <<Tag[IF ast[1].value.val THEN "OpTrue" ELSE "OpFalse"], Tag["OpPop"]>>

\* `1 + 1;` has been compiled: two entries Integer(1), Constant(0) and Constant(1)
C17_Witness ==
    /\ phase = "compiled"
    /\ ast = <<Expression(Infix(Const(1), "Plus", Const(1)))>>
    /\ compiler.byte_code.constants = <<Integer(1), Integer(1)>>
    /\ ConstantOperands(Emitted) = <<0, 1>>

-----------------------------------------------------------------------------
(* C18 *)

\* the program is one expression statement of a string literal
StringStatement == SingleExpression /\ ast[1].value.expr = "String"

\* C18: a string literal compiles like an integer literal: its String value is
\* appended to the constant pool and Constant(index) is emitted; the compiler does
\* not reject it as an unsupported expression.
C18_StringLiteralIsAConstant ==
    (phase # "source" /\ StringStatement) =>
        /\ compiler.panic = "none"
        /\ compiler.byte_code.constants = <<String(ast[1].value.text)>>
        /\ Emitted = TableEncoding(OpConstant(0)) \o <<Tag["OpPop"]>>

-----------------------------------------------------------------------------
(* C19 *)

\* the stream when the compiler has finished the i-th top-level statement
AfterStatement(i) == BeforeStatement(i + 1).byte_code.instructions

\* the i-th top-level statement, an expression statement, is the code of its
\* expression followed by one Pop and nothing more
ExpressionThenPop(i) ==
    /\ AfterStatement(i) = AfterValue(i).byte_code.instructions \o <<Tag["OpPop"]>>
    /\ Len(Emitted) >= Len(AfterStatement(i))
    /\ SubSeq(Emitted, 1, Len(AfterStatement(i))) = AfterStatement(i)

\* the i-th top-level statement, a let, is the code of its value followed by the
\* three bytes of a SetGlobal and nothing more
LetWithoutPop(i) ==
    /\ Len(AfterStatement(i)) = Len(AfterValue(i).byte_code.instructions) + 3
    /\ AfterStatement(i)[Len(AfterStatement(i)) - 2] = Tag["OpSetGlobal"]
    /\ Len(Emitted) >= Len(AfterStatement(i))
    /\ SubSeq(Emitted, 1, Len(AfterStatement(i))) = AfterStatement(i)

\* the conditional's consequence ends in an expression statement
ConsequenceEndsInExpression ==
    /\ HasIf
    /\ TheIf.consequence # <<>>
    /\ TheIf.consequence[Len(TheIf.consequence)].stmt = "Expression"

\* the code of the consequence as compile_statements emits it, every Pop in place
ConsequenceEmitted == After(AfterConsequence.byte_code.instructions, IfJumpPosition + 3)

\* C19: every expression statement compiles to the code of its expression followed
\* by exactly one Pop, a let statement to the code of its value and a SetGlobal,
\* without Pop; of the Pops emitted only the one that ends a branch of a conditional
\* is removed afterwards: the Pops inside the branch stay.
C19_OnePopPerExpressionStatement ==
    /\ Compiled =>
          \A i \in 1..Len(ast) :
              /\ ast[i].stmt = "Expression" => ExpressionThenPop(i)
              /\ ast[i].stmt = "Let" => LetWithoutPop(i)
    /\ (Compiled /\ ConsequenceEndsInExpression) =>
          /\ ConsequenceEmitted[Len(ConsequenceEmitted)] = Tag["OpPop"]
          /\ SubSeq(Emitted, IfJumpPosition + 4, IfJumpPosition + 2 + Len(ConsequenceEmitted)) =
                SubSeq(ConsequenceEmitted, 1, Len(ConsequenceEmitted) - 1)
          /\ Emitted[IfJumpPosition + 3 + Len(ConsequenceEmitted)] # Tag["OpPop"]
             \/ TheIf.alternative = <<>>

\* `if (true) { 1; 10; };` has been compiled: the Pop of `1;` stays, the one of `10;`
\* is removed, and one Pop ends the statement
C19_Witness ==
    /\ phase = "compiled"
    /\ ast = <<Expression(If(BooleanLit(TRUE),
                             <<Expression(Const(1)), Expression(Const(10))>>, <<>>))>>
    /\ Emitted = <<7, 14, 0, 11, 1, 0, 0, 2, 1, 0, 1, 2>>

-----------------------------------------------------------------------------
(* C20 *)

\* the step executes a Pop instruction
PopStep ==
    /\ phase = "running"
    /\ ip < Len(vm.instructions)
    /\ vm.instructions[ip + 1] = Tag["OpPop"]
    /\ trace' # trace

\* a Pop takes sp down by one and leaves every slot of the stack as it was, so the
\* value it removed now stands at stack[sp]
PopKeepsSlots ==
    PopStep =>
        /\ vm.sp > 0
        /\ pop(vm).ret = vm.stack[vm.sp]
        /\ vm'.sp = vm.sp - 1
        /\ vm'.stack = vm.stack
        /\ last_popped(vm') = {[panic |-> "none", value |-> vm.stack[vm.sp]]}

\* the last instruction the run executed is a Pop
LastExecutedIsPop ==
    /\ trace # <<>>
    /\ vm.instructions[trace[Len(trace)] + 1] = Tag["OpPop"]

\* what the caller read as last popped is the slot at sp, the value the last Pop
\* removed
ResultIsLastDiscarded ==
    /\ (phase = "done" /\ LastExecutedIsPop) =>
          /\ vm.sp < Len(vm.stack)
          /\ result.value = vm.stack[vm.sp + 1]
    /\ (phase = "done" /\ SingleExpression /\ ast[1].value.expr = "Boolean") =>
          result.value = Boolean(ast[1].value.val)

\* C20: pop decrements sp by one and returns the value on top without modifying a
\* stack slot, last_popped returns stack[sp]: after a run whose last instruction is
\* a Pop, last_popped is the value that Pop removed (`true;` leaves Boolean(true),
\* `false;` leaves Boolean(false)).
C20_LastPoppedIsLastDiscarded ==
    [][PopKeepsSlots /\ ResultIsLastDiscarded']_vars

\* `true;` has run and last_popped has returned Boolean(true)
C20_Witness ==
    /\ ast = <<Expression(BooleanLit(TRUE))>>
    /\ phase = "done"
    /\ LastExecutedIsPop
    /\ vm.sp = 0
    /\ result.value = Boolean(TRUE)

-----------------------------------------------------------------------------
(* C21 *)

\* the tags of the arms that push without popping first, and of the arms that pop
PushTags == {make_op(OpConstant(0))[1], make_op(OpTrue)[1], make_op(OpFalse)[1]}
ArithTags == {make_op(OpAdd)[1], make_op(OpSub)[1], make_op(OpMul)[1], make_op(OpDiv)[1]}

\* the instruction the next iteration of VM::run executes
AboutToExecute(tags) ==
    /\ phase = "running"
    /\ ip < Len(vm.instructions)
    /\ vm.instructions[ip + 1] \in tags

\* C21: while the VM runs byte code produced by the compiler, 0 <= sp <= STACK_SIZE:
\* no push is executed when sp = STACK_SIZE, no pop is executed when sp = 0 (an
\* arithmetic instruction pops twice), and last_popped never reads index STACK_SIZE.
C21_StackWithinCapacity ==
    /\ vm.sp \in 0..STACK_SIZE
    /\ AboutToExecute(PushTags) => vm.sp < STACK_SIZE
    /\ AboutToExecute({make_op(OpPop)[1]}) => vm.sp >= 1
    /\ AboutToExecute(ArithTags) => vm.sp >= 2
    /\ phase = "ran" => vm.sp < STACK_SIZE

-----------------------------------------------------------------------------
(* C22 *)

TableTags == {Tag[n] : n \in DOMAIN Tag}

\* the tag byte of the k-th instruction VM::run has executed
Fetched(k) == vm.instructions[trace[k] + 1]

\* C22: the VM reports the unrecognized-instruction failure exactly when the byte
\* at the instruction pointer is not a tag of the opcode table (0x01 to 0x11): a
\* tag of the table is never reported as unrecognized, and a byte outside the
\* table is the last one executed and ends the run in that failure.
C22_UnrecognizedExactlyOutsideTable ==
    /\ panic = "unhandled instruction" => Fetched(Len(trace)) \notin TableTags
    /\ \A k \in 1..Len(trace) :
          Fetched(k) \notin TableTags =>
              k = Len(trace) /\ phase = "panicked" /\ panic = "unhandled instruction"

-----------------------------------------------------------------------------
(* C23 *)

\* VM::run is about to execute OpDiv with Integer(0) on top of the stack
DivByZero ==
    /\ AboutToExecute({make_op(OpDiv)[1]})
    /\ vm.sp >= 1
    /\ vm.stack[vm.sp] = Integer(0)

\* C23: executing Div when the right operand, the first value popped, is Integer(0)
\* ends the run in a failure: the step leaves the run panicked, writes no stack slot,
\* and no step follows the failure.
C23_DivByZeroIsFatal ==
    [][/\ DivByZero => /\ phase' = "panicked"
                       /\ panic' # "none"
                       /\ vm'.stack = vm.stack
       /\ panic # "attempt to divide by zero"]_vars

C23_Witness ==
    /\ phase = "panicked"
    /\ panic = "attempt to divide by zero"
    /\ Fetched(Len(trace)) = make_op(OpDiv)[1]
    /\ vm.stack = <<Integer(6), Integer(0)>>
    /\ vm.sp = 0

-----------------------------------------------------------------------------
(* C24 *)

\* the block holds a let of the name x that binds it in the environment the block
\* is evaluated in: a statement of the block, or of a conditional's block in it
RECURSIVE LetIn(_, _), LetInExpr(_, _)
LetInExpr(e, x) ==
    CASE e.expr = "If" ->
            LetInExpr(e.condition, x) \/ LetIn(e.consequence, x) \/ LetIn(e.alternative, x)
      [] e.expr = "Infix" -> LetInExpr(e.left, x) \/ LetInExpr(e.right, x)
      [] e.expr = "Prefix" -> LetInExpr(e.value, x)
      [] e.expr = "Call" -> \E i \in 1..Len(e.arguments) : LetInExpr(e.arguments[i], x)
      [] OTHER -> FALSE

LetIn(block, x) ==
    \E i \in 1..Len(block) :
        \/ block[i].stmt = "Let" /\ block[i].name = x
        \/ LetInExpr(block[i].value, x)

\* main has read a line, evaluated it and printed the result
LineEvaluated ==
    /\ phase = "prompt"
    /\ repl'.count = repl.count + 1
    /\ repl'.last.panic = "none"

\* the environment of the evaluator is carried to the next line: a name the line
\* does not bind keeps its value
EnvCarried ==
    \A x \in DOMAIN repl.env :
        ~LetIn(repl'.last.input, x) => x \in DOMAIN repl'.env /\ repl'.env[x] = repl.env[x]

\* the line `x;` reads a name bound by an earlier line
ReadsEarlierBinding(x) ==
    /\ phase = "prompt"
    /\ repl'.count = repl.count + 1
    /\ repl'.last.input = <<Expression(Ident(x))>>
    /\ x \in DOMAIN repl.env

\* the evaluator prints the value the earlier line bound
ReadsCarriedValue ==
    \A x \in DOMAIN repl.env :
        ReadsEarlierBinding(x) =>
            /\ repl'.last.panic = "none"
            /\ repl'.last.displayed = display_object(repl.env[x])

\* the bytecode path resolves the name: compile_from_source accepts the line
CompilesWithEarlierBinding ==
    \A x \in DOMAIN repl.env :
        ReadsEarlierBinding(x) =>
            ~Panicked(compile_statements(Compiler_new, repl'.last.input))

\* C24: in an interactive session a binding created by a let in one input is still
\* bound, with the same value, when a later input references it: the binding state
\* (on the bytecode path, the symbol table and the global store) is carried from one
\* compile/run cycle to the next and not recreated empty for each input.
C24_BindingsSurviveInputs ==
    [][/\ LineEvaluated => EnvCarried
       /\ ReadsCarriedValue
       /\ CompilesWithEarlierBinding]_vars

-----------------------------------------------------------------------------
(* C25 *)

\* the expression holds a return statement in a block of a conditional
RECURSIVE ReturnIn(_), ReturnInExpr(_)
ReturnInExpr(e) ==
    CASE e.expr = "If" ->
            ReturnInExpr(e.condition) \/ ReturnIn(e.consequence) \/ ReturnIn(e.alternative)
      [] e.expr = "Infix" -> ReturnInExpr(e.left) \/ ReturnInExpr(e.right)
      [] e.expr = "Prefix" -> ReturnInExpr(e.value)
      [] e.expr = "Call" -> \E i \in 1..Len(e.arguments) : ReturnInExpr(e.arguments[i])
      [] OTHER -> FALSE

ReturnIn(block) ==
    \E i \in 1..Len(block) : block[i].stmt = "Return" \/ ReturnInExpr(block[i].value)

\* the statement s stands in a block of a conditional of the expression
RECURSIVE StatementIn(_, _), StatementInExpr(_, _)
StatementInExpr(e, s) ==
    CASE e.expr = "If" ->
            \/ StatementInExpr(e.condition, s)
            \/ StatementIn(e.consequence, s)
            \/ StatementIn(e.alternative, s)
      [] e.expr = "Infix" -> StatementInExpr(e.left, s) \/ StatementInExpr(e.right, s)
      [] e.expr = "Prefix" -> StatementInExpr(e.value, s)
      [] e.expr = "Call" -> \E i \in 1..Len(e.arguments) : StatementInExpr(e.arguments[i], s)
      [] OTHER -> FALSE

StatementIn(block, s) ==
    \E i \in 1..Len(block) : block[i] = s \/ StatementInExpr(block[i].value, s)

\* every conditional of the block that holds a return is itself a statement: the
\* value of an expression statement or of a let, in the block, in the blocks of such
\* conditionals, and in the bodies of the function literals bound or written there
RECURSIVE ReturnsInStatements(_)
ReturnsInStatements(block) ==
    \A i \in 1..Len(block) :
        IF block[i].stmt \in {"Expression", "Let"} /\ block[i].value.expr = "If"
        THEN /\ ~ReturnInExpr(block[i].value.condition)
             /\ ReturnsInStatements(block[i].value.consequence)
             /\ ReturnsInStatements(block[i].value.alternative)
        ELSE IF block[i].value.expr = "Function"
        THEN ReturnsInStatements(block[i].value.body)
        ELSE ~ReturnInExpr(block[i].value)

\* the k-th statement the evaluator completed is a return statement
ReturnEvaluated(k) == repl.last.log[k].stmt.stmt = "Return"

\* the statements completed after the k-th in the same scope, before the scope's
\* function call ends, are the ones the k-th stands in
OnlyEnclosingFollow(k) ==
    \A m \in (k + 1)..Len(repl.last.log) :
        (\A j \in k..m : repl.last.log[j].depth >= repl.last.log[k].depth)
        /\ repl.last.log[m].depth = repl.last.log[k].depth
            => StatementInExpr(repl.last.log[m].stmt.value, repl.last.log[k].stmt)

\* the program's result is the value the k-th statement returned
ResultIsReturned(k) ==
    /\ repl.last.panic = "none"
    /\ repl.last.obj = repl.last.log[k].obj.value

\* every statement of the input itself was evaluated
AllTopLevelEvaluated ==
    \A i \in 1..Len(repl.last.input) :
        \E k \in 1..Len(repl.last.log) :
            repl.last.log[k].depth = 0 /\ repl.last.log[k].stmt = repl.last.input[i]

ReturnEndsScope ==
    /\ \A k \in 1..Len(repl.last.log) :
          ReturnEvaluated(k) =>
              /\ OnlyEnclosingFollow(k)
              /\ repl.last.log[k].depth = 0 => ResultIsReturned(k)
    /\ (repl.last.panic = "none"
        /\ \A k \in 1..Len(repl.last.log) : ReturnEvaluated(k) => repl.last.log[k].depth > 0)
            => AllTopLevelEvaluated

-----------------------------------------------------------------------------
(* C26 *)

\* a block of statements over literals and names: no conditional or call inside
FlatBlock(block) ==
    \A i \in 1..Len(block) : block[i].value.expr \in {"Const", "Boolean", "String", "Ident"}

\* main evaluates a line that is one conditional `if (c) { A } else { B };` with
\* flat blocks and a condition without blocks
ConditionalLine ==
    /\ phase = "prompt"
    /\ repl'.count = repl.count + 1
    /\ Len(repl'.last.input) = 1
    /\ repl'.last.input[1].stmt = "Expression"
    /\ repl'.last.input[1].value.expr = "If"
    /\ ~ReturnInExpr(repl'.last.input[1].value.condition)
    /\ FlatBlock(repl'.last.input[1].value.consequence)
    /\ FlatBlock(repl'.last.input[1].value.alternative)

\* what the condition of the line evaluates to in main's environment
ConditionOf(line) == eval_expr(line[1].value.condition, EvalStart(repl.env))

\* the block the claim selects
SelectedBlock(line) ==
    IF ConditionOf(line).obj = Boolean(TRUE)
    THEN line[1].value.consequence
    ELSE line[1].value.alternative

\* the statements completed before the conditional's own statement are the first
\* ones of the block, in order: all of them, or those up to a return
EvaluatesBlock(log, block) ==
    /\ Len(log) - 1 <= Len(block)
    /\ \A j \in 1..(Len(log) - 1) : log[j].stmt = block[j] /\ log[j].depth = 0
    /\ Len(log) - 1 < Len(block) => Len(log) > 1 /\ log[Len(log) - 1].stmt.stmt = "Return"

\* the value of the conditional, the object of its statement
ValueOfBlock(log) ==
    IF Len(log) = 1 THEN log[1].obj = Null
    ELSE log[Len(log)].obj = log[Len(log) - 1].obj

-----------------------------------------------------------------------------
(* C27 *)

ArithNames == {"OpAdd", "OpSub", "OpMul", "OpDiv"}

Magnitude(n) == IF n < 0 THEN -n ELSE n

\* l op r is an i32 (operands equal to MinI32 are left out of the division)
RepresentableOp(l, name, r) ==
    CASE name = "OpAdd" -> ~AddOverflows(l, r)
      [] name = "OpSub" -> ~SubOverflows(l, r)
      [] name = "OpMul" -> ~MulOverflows(l, r)
      [] name = "OpDiv" -> r # 0 /\ l > MinI32 /\ r > MinI32

\* l op r over the integers, the quotient rounded toward zero
ExactOp(l, name, r) ==
    CASE name = "OpAdd" -> l + r
      [] name = "OpSub" -> l - r
      [] name = "OpMul" -> l * r
      [] name = "OpDiv" -> IF (l < 0) = (r < 0)
                           THEN Magnitude(l) \div Magnitude(r)
                           ELSE -(Magnitude(l) \div Magnitude(r))

\* VM::run is about to execute the arithmetic instruction with two values on the stack
ArithStep(name) == AboutToExecute({Tag[name]}) /\ vm.sp >= 2

BothIntegers == vm.stack[vm.sp].tag = "Integer" /\ vm.stack[vm.sp - 1].tag = "Integer"

\* the step replaces Integer(l) and Integer(r) on top by Integer(l op r): the slot of
\* l holds the result, the slots below are untouched, sp is one less
ReplacesOperands(name) ==
    /\ phase' = "running"
    /\ vm'.sp = vm.sp - 1
    /\ vm'.stack[vm.sp - 1] =
          Integer(ExactOp(vm.stack[vm.sp - 1].int, name, vm.stack[vm.sp].int))
    /\ \A i \in 1..(vm.sp - 2) : vm'.stack[i] = vm.stack[i]

\* the step ends the run in a panic and writes no slot
FatalTypeError ==
    /\ phase' = "panicked"
    /\ panic' # "none"
    /\ vm'.stack = vm.stack

-----------------------------------------------------------------------------
(* C28 *)

\* the 16-bit operand of the instruction at ip
OperandAtIp == convert_two_u8s_be_to_usize(vm.instructions[ip + 2], vm.instructions[ip + 3])

\* the step pops a Boolean and goes to the operand on false, past the 3 bytes on true
JumpsIfNotTrue ==
    IF vm.stack[vm.sp].tag = "Boolean"
    THEN /\ phase' = "running"
         /\ vm'.sp = vm.sp - 1
         /\ ip' = IF vm.stack[vm.sp].bool THEN ip + 3 ELSE OperandAtIp
    ELSE phase' = "panicked" /\ panic' # "unhandled instruction"

\* the step goes to the operand and leaves the stack as it is
Jumps ==
    /\ phase' = "running"
    /\ ip' = OperandAtIp
    /\ vm' = vm

\* C28: JumpIfNotTrue pops one Boolean; on false ip becomes the decoded 16-bit
\* operand, on true execution continues 3 bytes after the start of the instruction;
\* a value that is not a Boolean is a fatal type error.  Jump sets ip to its
\* decoded operand and leaves the stack unchanged.
C28_JumpsFollowOperand ==
    [][/\ AboutToExecute({Tag["OpJumpNotTrue"]}) /\ vm.sp >= 1 => JumpsIfNotTrue
       /\ AboutToExecute({Tag["OpJump"]}) => Jumps]_vars

-----------------------------------------------------------------------------
(* C29 *)

\* the step pops the value to store and goes on with the next instruction
StoresGlobal ==
    /\ phase' = "running"
    /\ vm'.sp = vm.sp - 1
    /\ ip' = ip + 3

\* the step pushes the value of the slot and goes on with the next instruction
LoadsGlobal ==
    /\ phase' = "running"
    /\ vm'.sp = vm.sp + 1
    /\ ip' = ip + 3
    /\ \A i \in 1..vm.sp : vm'.stack[i] = vm.stack[i]

\* C29: SetGlobal(k) pops one value and stores it in global slot k, changing no other
\* slot; GetGlobal(k) pushes a copy of the value in slot k and leaves the global store
\* unchanged; no other instruction modifies the store, so slot k holds the value of
\* the last SetGlobal(k) executed.  The VM struct has no global store: the formula
\* states what the two instructions do to the stack and to ip.
C29_GlobalStoreInstructions ==
    [][/\ AboutToExecute({Tag["OpSetGlobal"]}) /\ vm.sp >= 1 => StoresGlobal
       /\ AboutToExecute({Tag["OpGetGlobal"]}) => LoadsGlobal]_vars

-----------------------------------------------------------------------------
(* C30 *)

CompareNames == {"OpEquals", "OpNotEquals", "OpGreaterThan"}

\* the comparison of left with right
Compared(name, left, right) ==
    CASE name = "OpEquals" -> left = right
      [] name = "OpNotEquals" -> left # right
      [] name = "OpGreaterThan" -> left > right

\* the step replaces left and right on top of the stack by the Boolean b
PushesBoolean(b) ==
    /\ phase' = "running"
    /\ vm'.sp = vm.sp - 1
    /\ vm'.stack[vm.sp - 1] = Boolean(b)
    /\ \A i \in 1..(vm.sp - 2) : vm'.stack[i] = vm.stack[i]

\* what the comparison instruction does to left (below) and right (on top)
Compares(name, left, right) ==
    IF left.tag = "Integer" /\ right.tag = "Integer"
    THEN PushesBoolean(Compared(name, left.int, right.int))
    ELSE IF left.tag = "Boolean" /\ right.tag = "Boolean" /\ name # "OpGreaterThan"
    THEN PushesBoolean(Compared(name, left.bool, right.bool))
    ELSE FatalTypeError

\* C30: Equals, NotEquals and GreaterThan pop the right operand first and the left
\* second and push exactly one Boolean: the numeric comparison of two Integers, the
\* sameness of two Booleans (Equals, NotEquals); operands of mismatched types end the
\* run in a fatal type error with nothing pushed.
C30_ComparisonsPushBoolean ==
    [][\A name \in CompareNames :
          AboutToExecute({Tag[name]}) /\ vm.sp >= 2
              => Compares(name, vm.stack[vm.sp - 1], vm.stack[vm.sp])]_vars

-----------------------------------------------------------------------------
(* C31 *)

\* the program is the single statement `-e;` or `!e;`
PrefixStatement == SingleExpression /\ ast[1].value.expr = "Prefix"

\* the stream is the code of e, then the Minus or Bang opcode, then the statement's Pop
PrefixCode ==
    compile_expression(Compiler_new, ast[1].value.value).byte_code.instructions
    \o <<IF ast[1].value.prefix = "Minus" THEN Tag["OpMinus"] ELSE Tag["OpBang"]>>
    \o <<Tag["OpPop"]>>

\* the step replaces the value on top of the stack by the object o
ReplacesTop(o) ==
    /\ phase' = "running"
    /\ ip' = ip + 1
    /\ vm'.sp = vm.sp
    /\ vm'.stack[vm.sp] = o
    /\ \A i \in 1..(vm.sp - 1) : vm'.stack[i] = vm.stack[i]

\* the step ends the run in a type error
PrefixTypeError == phase' = "panicked" /\ panic' \notin {"none", "unhandled instruction"}

\* what Minus does to the value on top of the stack
Negates(top) ==
    IF top.tag = "Integer" /\ top.int # MinI32
    THEN ReplacesTop(Integer(-top.int))
    ELSE top.tag # "Integer" => PrefixTypeError

\* what Bang does to the value on top of the stack
Inverts(top) ==
    IF top.tag = "Boolean" THEN ReplacesTop(Boolean(~top.bool)) ELSE PrefixTypeError

\* C31: `-e` and `!e` compile to the code of e followed by the Minus or Bang opcode;
\* at run time Minus pops an Integer n and pushes Integer(-n), Bang pops a Boolean b
\* and pushes Boolean(not b), each leaving sp as it was, and an operand of another
\* type ends the run in a fatal type error.
C31_PrefixOperators ==
    [][/\ (Compiled /\ PrefixStatement => Emitted = PrefixCode)'
       /\ AboutToExecute({Tag["OpMinus"]}) /\ vm.sp >= 1 => Negates(vm.stack[vm.sp])
       /\ AboutToExecute({Tag["OpBang"]}) /\ vm.sp >= 1 => Inverts(vm.stack[vm.sp])]_vars

-----------------------------------------------------------------------------
(* C32 *)

\* statement i is `let name = e;` where e reads name first: `name` or `name op k`
SelfLet(i) ==
    /\ ast[i].stmt = "Let"
    /\ Simple(ast[i].value)
    /\ \/ ast[i].value = Ident(ast[i].name)
       \/ /\ ast[i].value.expr = "Infix"
          /\ ast[i].value.operator # "LessThan"
          /\ ast[i].value.left = Ident(ast[i].name)
          /\ ast[i].value.right.expr = "Const"
    /\ ~Panicked(BeforeStatement(i))

\* the bytes statement i has added to the stream
StatementCode(i) ==
    After(BeforeStatement(i + 1).byte_code.instructions,
          Len(BeforeStatement(i).byte_code.instructions))

\* the code of statement i starts with GetGlobal(slot of the previous let of the
\* name) and ends with SetGlobal(the next free slot), which is another slot
ReadsPreviousSlot(i) ==
    /\ compiler.panic = "none"
    /\ ~Panicked(BeforeStatement(i + 1))
    /\ SubSeq(StatementCode(i), 1, 3) =
          TableEncoding(OpGetGlobal(SlotOfLatestLet(ast[i].name, i)))
    /\ After(StatementCode(i), Len(StatementCode(i)) - 3) =
          TableEncoding(OpSetGlobal(LetsIn(SubSeq(ast, 1, i - 1))))
    /\ SlotOfLatestLet(ast[i].name, i) < LetsIn(SubSeq(ast, 1, i - 1))
    /\ SubSeq(Emitted, 1, Len(BeforeStatement(i + 1).byte_code.instructions)) =
          BeforeStatement(i + 1).byte_code.instructions

\* the compilation has failed on statement i with no slot allocated for its name
FailsBeforeDefine(i) ==
    /\ phase = "panicked"
    /\ panic = "attempted to use undefined variable"
    /\ ast[i].name \notin DOMAIN compiler.symbol_table.store
    /\ compiler.symbol_table = BeforeStatement(i).symbol_table
    /\ compiler.symbol_table.next_index = LetsIn(SubSeq(ast, 1, i - 1))

\* C32: in `let name = expr` the code of expr is compiled before name is defined: a
\* reference to name inside expr resolves to the slot of the previous definition of
\* name (`let a = 1; let a = a + 1;` reads slot 0 and writes slot 1), and the
\* compilation fails as undefined variable when there is no previous definition, no
\* slot having been allocated for name.
C32_ValueCompiledBeforeDefine ==
    /\ \A i \in 1..Len(ast) :
          (phase # "source" /\ SelfLet(i)) =>
              /\ BoundAtTopLevel(ast[i].name, i) => ReadsPreviousSlot(i)
              /\ LetsNamedIn(SubSeq(ast, 1, i - 1), ast[i].name) = 0 => FailsBeforeDefine(i)
    /\ (Compiled /\ ast = <<Let("a", Const(1)), Let("a", Infix(Ident("a"), "Plus", Const(1)))>>) =>
          Emitted = <<1, 0, 0, 16, 0, 0, 17, 0, 0, 1, 0, 1, 3, 16, 0, 1>>

\* `let a = 1; let a = a + 1;` has been compiled, and `let a = 1; let b = b + 1;` has
\* failed (two behaviours; the witness is the first)
C32_Witness ==
    /\ phase = "compiled"
    /\ ast = <<Let("a", Const(1)), Let("a", Infix(Ident("a"), "Plus", Const(1)))>>
    /\ SelfLet(2)
    /\ ReadsPreviousSlot(2)
    /\ compiler.symbol_table.store["a"] = 1

-----------------------------------------------------------------------------
(* C33 *)

\* the compiler at the first change_op of the conditional (after the consequence and
\* the strip of its Pop), the jump it writes, and the compiler after the call
AtFirstPatch ==
    strip_last_pop(compile_statements(add_instruction(AfterCondition, OpJumpNotTrue(9999)),
                                      TheIf.consequence))
FirstPatchOp ==
    OpJumpNotTrue(Len(AtFirstPatch.byte_code.instructions)
                  + (IF TheIf.alternative = <<>> THEN 0 ELSE 3))
AfterFirstPatch == change_op(AtFirstPatch, IfJumpPosition, FirstPatchOp)

\* the same for the change_op that ends a conditional with else
SecondPatchPosition == Len(AfterFirstPatch.byte_code.instructions)
AtSecondPatch ==
    strip_last_pop(compile_statements(add_instruction(AfterFirstPatch, OpJump(9999)),
                                      TheIf.alternative))
SecondPatchOp == OpJump(Len(AtSecondPatch.byte_code.instructions))
AfterSecondPatch == change_op(AtSecondPatch, SecondPatchPosition, SecondPatchOp)

\* the call has replaced the placeholder at position by op and nothing else
PatchedInPlace(before, after, position, placeholder, op) ==
    /\ after.panic = "none"
    /\ SubSeq(before.byte_code.instructions, position + 1, position + 3) =
          TableEncoding(placeholder)
    /\ Len(after.byte_code.instructions) = Len(before.byte_code.instructions)
    /\ SubSeq(after.byte_code.instructions, position + 1, position + 3) = TableEncoding(op)
    /\ \A k \in 1..Len(before.byte_code.instructions) :
          k \notin (position + 1)..(position + 3) =>
              after.byte_code.instructions[k] = before.byte_code.instructions[k]
    /\ after.byte_code.constants = before.byte_code.constants

\* the stream the compiler returned starts with the bytes the call left, but for the
\* jumps of enclosing code patched later (there is none at top level)
KeptInStream(after) ==
    /\ Len(Emitted) >= Len(after.byte_code.instructions)
    /\ SubSeq(Emitted, 1, Len(after.byte_code.instructions)) = after.byte_code.instructions

\* C33: change_op(position, op), position being the offset of a 3-byte placeholder
\* jump emitted before and op a jump with its final target, replaces exactly the
\* bytes [position, position + 3) by the encoding of op: the length of the stream and
\* every byte outside that range are unchanged, so no instruction offset shifts.
C33_ChangeOpInPlace ==
    (Compiled /\ HasIf) =>
        /\ PatchedInPlace(AtFirstPatch, AfterFirstPatch, IfJumpPosition,
                          OpJumpNotTrue(9999), FirstPatchOp)
        /\ TheIf.alternative = <<>> => KeptInStream(AfterFirstPatch)
        /\ TheIf.alternative # <<>> =>
              /\ PatchedInPlace(AtSecondPatch, AfterSecondPatch, SecondPatchPosition,
                                OpJump(9999), SecondPatchOp)
              /\ KeptInStream(AfterSecondPatch)

\* `if (true) { 10; } else { 20; };` has been compiled: both placeholders have been
\* replaced where they stood
C33_Witness ==
    /\ phase = "compiled"
    /\ ast = <<Expression(If(BooleanLit(TRUE), <<Expression(Const(10))>>,
                             <<Expression(Const(20))>>))>>
    /\ AtFirstPatch.byte_code.instructions = <<7, 14, 39, 15, 1, 0, 0>>
    /\ AfterFirstPatch.byte_code.instructions = <<7, 14, 0, 10, 1, 0, 0>>
    /\ AtSecondPatch.byte_code.instructions = <<7, 14, 0, 10, 1, 0, 0, 15, 39, 15, 1, 0, 1>>
    /\ Emitted = <<7, 14, 0, 10, 1, 0, 0, 15, 0, 13, 1, 0, 1, 2>>

-----------------------------------------------------------------------------
(* C34 *)

\* VM::run is entered with ip = 0
RunStartsAtZero == (phase # "running" /\ phase' = "running") => ip' = 0 /\ trace' = <<>>

\* an iteration of the loop moves ip forward, and nothing else moves it
IpAdvances ==
    /\ trace' # trace => ip' > ip
    /\ (phase = "running" /\ trace' = trace) => ip' = ip

\* VM::run returns normally only with ip at the end of the stream
ReturnsAtEnd == (phase # "ran" /\ phase' = "ran") => ip' = Len(vm'.instructions)

\* the process has stopped: the caller has its value, or a panic has ended it
Stopped == phase \in {"done", "panicked"}

-----------------------------------------------------------------------------
(* C35 *)

\* the number of bytes of the instruction whose tag is given
Width(tag) ==
    IF tag \in {Tag[n] : n \in OperandOps \cup {"OpGetGlobal"}} THEN 3 ELSE 1

\* the offsets at which the instructions of the code start when it is decoded from
\* offset at, and the offset at which the decoding ends (beyond the length when
\* the last instruction is cut)
RECURSIVE InstructionStarts(_, _)
InstructionStarts(code, at) ==
    IF at >= Len(code) THEN {}
    ELSE {at} \cup InstructionStarts(code, at + Width(code[at + 1]))

RECURSIVE DecodingEnd(_, _)
DecodingEnd(code, at) ==
    IF at >= Len(code) THEN at ELSE DecodingEnd(code, at + Width(code[at + 1]))

\* the code is a sequence of complete instructions of the table
Decodes(code) ==
    /\ DecodingEnd(code, 0) = Len(code)
    /\ \A at \in InstructionStarts(code, 0) : code[at + 1] \in TableTags

\* the compiler when it has compiled the block of a branch from the compiler start,
\* before the strip
BranchCompiled(start, block) == compile_statements(start, block)

\* when the strip removes a byte after the block, the block ends in an expression
\* statement and the byte is the Pop of that statement
StripsWholePop(start, block) ==
    last_instruction_is_pop(BranchCompiled(start, block)) =>
        /\ block # <<>>
        /\ block[Len(block)].stmt = "Expression"
        /\ Decodes(remove_last_pop(BranchCompiled(start, block)).byte_code.instructions)

\* C35: when the compiler strips the trailing Pop of a branch of a conditional, the
\* byte it removes is a whole Pop instruction, never the last operand byte of another
\* instruction whose low byte is 0x02 (a branch ending in a let bound to slot 2,
\* SetGlobal(2)); every stream the compiler returns decodes from offset 0 as a
\* sequence of complete instructions that ends exactly at the length of the stream.
C35_StripRemovesWholePop ==
    /\ Compiled => Decodes(Emitted)
    /\ (Compiled /\ HasIf) =>
          /\ StripsWholePop(add_instruction(AfterCondition, OpJumpNotTrue(9999)),
                            TheIf.consequence)
          /\ TheIf.alternative # <<>> =>
                StripsWholePop(add_instruction(AfterFirstPatch, OpJump(9999)),
                               TheIf.alternative)

-----------------------------------------------------------------------------
(* C36 *)

\* the offsets at which the code of a top-level statement ends
StatementEnds == {Len(AfterStatement(i)) : i \in 1..Len(ast)}

\* the run stands at the end of the code of a top-level statement
AtStatementEnd == phase = "running" /\ compiler.panic = "none" /\ ip \in StatementEnds

\* the offset of the Pop that closes the statement of the conditional
ClosingPop == Len(AfterStatement(IfIndex)) - 1

\* the condition of the conditional is a Boolean literal: evaluating it cannot fail
LiteralCondition == HasIf /\ TheIf.condition.expr = "Boolean"

\* the run is over and has executed the Pop that closes the conditional's statement
ClosedConditional ==
    phase \in {"ran", "done", "panicked"} => \E k \in 1..Len(trace) : trace[k] = ClosingPop

\* C36: when the VM has finished executing the code of a top-level statement, sp is
\* back to 0, whichever branch of each conditional was taken (a conditional without
\* else whose condition is false, a conditional with an empty branch, a taken branch
\* that ends in a let): the Pop that closes a conditional's statement is executed and
\* discards a value the conditional pushed.
C36_StackBalancedAfterStatement ==
    /\ AtStatementEnd => vm.sp = 0
    /\ (AboutToExecute({Tag["OpPop"]}) /\ HasIf /\ ip = ClosingPop) => vm.sp = 1
    /\ (Compiled /\ LiteralCondition) => ClosedConditional

-----------------------------------------------------------------------------
(* C37 *)

\* the offsets of the jump instructions of the code
JumpsOf(code) ==
    {at \in InstructionStarts(code, 0) : code[at + 1] \in {Tag["OpJumpNotTrue"], Tag["OpJump"]}}

\* the 16-bit operand of the instruction at offset at
OperandOf(code, at) == code[at + 2] * 256 + code[at + 3]

\* the jump at offset at is whole and goes forward to the start of an instruction
\* or to the end of the code
JumpResolved(code, at) ==
    /\ at + 3 <= Len(code)
    /\ OperandOf(code, at) \in InstructionStarts(code, 0) \cup {Len(code)}
    /\ OperandOf(code, at) > at
    /\ OperandOf(code, at) <= Len(code)

\* C37: in the byte code the compiler returns, also for conditionals nested in the
\* branches of other conditionals, no placeholder target remains: the operand of each
\* JumpIfNotTrue and Jump is the offset of the first byte of an instruction or the end
\* of the stream, is greater than the offset of the jump itself and at most the
\* length of the stream.
C37_JumpTargetsResolved ==
    Compiled => \A at \in JumpsOf(Emitted) : JumpResolved(Emitted, at)

-----------------------------------------------------------------------------
(* C38 *)

\* the loop of compile_statements has just compiled the statement s
JustCompiled(s) == phase = "compiling" /\ ast # <<>> /\ ast[Len(ast)] = s

\* the operand of the instruction that starts n bytes before the end of the stream
OperandFromEnd(n) == OperandOf(Emitted, Len(Emitted) - n)

\* the index add_constant returns for one more constant is the position it takes
NextIndexIsPosition ==
    phase = "compiling" =>
        add_constant(compiler, Integer(1)).ret = Len(compiler.byte_code.constants)

\* `1;` is Constant(k), Pop: k is the position of the constant appended last
ConstantOperandIsPosition ==
    JustCompiled(Expression(Const(1))) =>
        /\ OperandFromEnd(4) = Len(compiler.byte_code.constants) - 1
        /\ OperandFromEnd(4) < Len(compiler.byte_code.constants)

\* `if (true) { 10; };` is True, JumpNotTrue(t), Constant(k), Pop: t is the offset of
\* the Pop.  `if (true) { 10; } else { 20; };` is True, JumpNotTrue(t1), Constant(k),
\* Jump(t2), Constant(k + 1), Pop: t1 is the offset of the second Constant, t2 the
\* offset of the Pop.
JumpOperandsAreOffsets ==
    /\ JustCompiled(Expression(If(BooleanLit(TRUE), <<Expression(Const(10))>>, <<>>))) =>
          OperandFromEnd(7) = Len(Emitted) - 1
    /\ JustCompiled(Expression(If(BooleanLit(TRUE), <<Expression(Const(10))>>,
                                  <<Expression(Const(20))>>))) =>
          /\ OperandFromEnd(13) = Len(Emitted) - 4
          /\ OperandFromEnd(7) = Len(Emitted) - 1

\* C38: no 16-bit operand is a silently truncated value: the index add_constant
\* returns is the real position of the constant appended (no pool index is reused,
\* every Constant operand is below the length of the pool) and every jump operand is
\* the real byte offset of its target, whatever the number of constants and the
\* length of the stream (more than 65536 constants, more than 65535 bytes).
C38_NoTruncatedOperand ==
    /\ NextIndexIsPosition
    /\ ConstantOperandIsPosition
    /\ JumpOperandsAreOffsets

-----------------------------------------------------------------------------
(* C39 *)

\* an expression over integer literals, boolean literals and + - * /
RECURSIVE PureExpr(_)
PureExpr(e) ==
    \/ e.expr \in {"Const", "Boolean"}
    \/ e.expr = "Infix" /\ e.operator \in Arithmetic /\ PureExpr(e.left) /\ PureExpr(e.right)

\* the program is made of expression statements over such expressions
PureProgram ==
    /\ ast # <<>>
    /\ \A i \in 1..Len(ast) : ast[i].stmt = "Expression" /\ PureExpr(ast[i].value)

\* what the tree-walking evaluator returns for the program (tests::test_eval)
Evaluated == eval_return_scope(ast, EvalStart(Env_new))

\* C39: for every program made of expression statements over integer literals,
\* boolean literals and the operators + - * /, the value the VM reports as last
\* popped after running the compiled byte code is the value the tree-walking
\* evaluator returns for the same source; the one fails exactly when the other does
\* (a zero divisor, an overflow in a build that checks it, an operand of another type).
C39_VMAgreesWithEvaluator ==
    PureProgram =>
        /\ compiler.panic = "none"
        /\ phase = "done" => Evaluated.panic = "none" /\ result.value = Evaluated.obj
        /\ phase = "panicked" => Evaluated.panic # "none"

\* `1 - 2; (1 - 8) / 2; 3 * (2 - 6);` has been compiled and run: both give -12
C39_Witness ==
    /\ phase = "done"
    /\ PureProgram
    /\ Len(ast) = 3
    /\ result.value = Integer(-12)
    /\ Evaluated.obj = Integer(-12)

-----------------------------------------------------------------------------
(* C40 *)

\* the line main reads is the single statement `name(arguments);`, the name being
\* bound to a function by an earlier line
CallRead ==
    /\ phase = "prompt"
    /\ repl'.count = repl.count + 1
    /\ Len(repl'.last.input) = 1
    /\ repl'.last.input[1].stmt = "Expression"
    /\ repl'.last.input[1].value.expr = "Call"
    /\ repl'.last.input[1].value.function.expr = "Ident"
    /\ repl'.last.input[1].value.function.name \in DOMAIN repl.env
    /\ repl.env[repl'.last.input[1].value.function.name].tag = "Function"

CallArguments == repl'.last.input[1].value.arguments
CalledFunction == repl.env[repl'.last.input[1].value.function.name]

\* the arguments from the i-th on evaluated one after the other, each in the
\* environment the one before it has left: the values and the last evaluation
RECURSIVE ArgumentsFrom(_, _, _)
ArgumentsFrom(arguments, i, args) ==
    IF i > Len(arguments) \/ args.st.panic # "none" THEN args
    ELSE ArgumentsFrom(arguments, i + 1,
             CHOOSE next \in {[st |-> r, values |-> Append(args.values, r.obj)] :
                                 r \in {eval_expr(arguments[i], args.st)}} : TRUE)

\* the arguments of the call evaluated from left to right in main's environment
ArgumentsInCaller ==
    ArgumentsFrom(CallArguments, 1, [st |-> EvalStart(repl.env), values |-> <<>>])

\* an environment that holds the parameters bound to the values and nothing else
ParametersOnly(parameters, values) ==
    [p \in {parameters[i] : i \in 1..Len(parameters)} |->
        values[CHOOSE i \in 1..Len(parameters) :
                  /\ parameters[i] = p
                  /\ \A j \in (i + 1)..Len(parameters) : parameters[j] # p]]

\* the body evaluated in the environment of the parameters alone
BodyAlone ==
    eval_return_scope(CalledFunction.body,
        EvalStart(ParametersOnly(CalledFunction.parameters, ArgumentsInCaller.values)))

\* the outcome of the call: a panic before any argument when the counts differ, the
\* panic of an argument, or what the body yields without main's bindings
CallOutcome ==
    IF Len(CalledFunction.parameters) # Len(CallArguments)
    THEN /\ repl'.last.panic = "called function with wrong number of parameters"
         /\ repl'.last.log = <<>>
         /\ phase' = "panicked"
    ELSE IF ArgumentsInCaller.st.panic # "none"
    THEN repl'.last.panic = ArgumentsInCaller.st.panic
    ELSE /\ repl'.last.panic = BodyAlone.panic
         /\ BodyAlone.panic = "none" => repl'.last.obj = BodyAlone.obj

\* main's environment after the call is the one it had before the call
CallerEnvUnchanged == repl'.last.panic = "none" => repl'.env = repl.env

\* main's environment after the call is the one the arguments have left: the body
\* adds and changes nothing, and a name no argument binds keeps its value
CallerEnvAfterArguments ==
    repl'.last.panic = "none" =>
        /\ repl'.env = ArgumentsInCaller.st.env
        /\ \A x \in DOMAIN repl.env :
              (\A i \in 1..Len(CallArguments) : ~LetInExpr(CallArguments[i], x)) =>
                  x \in DOMAIN repl'.env /\ repl'.env[x] = repl.env[x]

\* C40 as stated: in the tree-walking evaluator a call evaluates its arguments in the
\* caller's environment from left to right, binds them to the parameters in a fresh
\* environment holding nothing else and evaluates the body there; the call leaves
\* every binding of the caller's environment unchanged, the body reads no binding of
\* the caller other than its parameters, and a call whose argument count differs from
\* the parameter count fails instead of evaluating the body.
C40_CallLeavesCallerEnv ==
    [][CallRead => CallOutcome /\ CallerEnvUnchanged]_vars

\* C40, amended: the same, except that the caller's environment after the call is the
\* one the evaluation of the arguments has left; the body changes no binding of the
\* caller, and a binding is changed only by a let inside a conditional of an argument.
C40_CallLeavesEnvOfArguments ==
    [][CallRead => CallOutcome /\ CallerEnvAfterArguments]_vars

\* `k(5);` has been evaluated after `let a = 1; ... let k = fn(x) { let a = x;
\* let b = 7; a; };`: the call yields 5, a is still 1 and b is not bound
C40_Witness ==
    /\ repl.count = 2
    /\ repl.readline = "Ok"
    /\ repl.last.input = <<Expression(Call(Ident("k"), <<Const(5)>>))>>
    /\ repl.last.panic = "none"
    /\ repl.last.obj = Integer(5)
    /\ DOMAIN repl.env = {"a", "f", "g", "h", "k"}
    /\ repl.env["a"] = Integer(1)

====
